---- MODULE Spec2Model ----
(***************************************************************************)
(* Selfbook: profile provisioning and the dashboard's editor.              *)
(*                                                                         *)
(* The model covers the three handlers of the profile route (GET, POST,    *)
(* PATCH), the signup page's handleSignup and the lazy provisioning branch *)
(* of the dashboard's loadProfile, all running against one profile store.  *)
(* Every `await` on the backend is a step boundary: the code between two   *)
(* awaits is local to one handler and is folded into the step that makes   *)
(* the next backend call.                                                  *)
(*                                                                         *)
(* Strings that the code inspects character by character (usernames,       *)
(* identities) are sequences of one-character strings.  The empty sequence *)
(* stands for every falsy value of such a field in JavaScript: undefined,  *)
(* null and "".  Messages, which are only compared, are TLA+ strings.      *)
(*                                                                         *)
(* The store and the privileged function create_profile_for_user are not   *)
(* part of the sources; they follow the specification: a profiles table    *)
(* with unique owning user and unique username, lookups that answer, an    *)
(* unprivileged insert that needs a session, and a privileged call that    *)
(* can end in any of RpcOutcomes.                                          *)
(*                                                                         *)
(* Specifications:                                                         *)
(*   SpecRoute      concurrent POSTs to the route                          *)
(*   SpecSignup     the signup page and the POST it falls back to          *)
(*   SpecProvision  signup page, dashboard and another client of the route *)
(*   SpecProfile    GET and PATCH beside a POST                            *)
(*   SpecClient     getSupabaseClient under every environment              *)
(*   SpecSections   drafts, saves and deletes of sections; saves overlap   *)
(*   SpecContent    the editors of the three section types                 *)
(*   SpecLifecycle  sections added and deleted by handlers that overlap    *)
(*   SpecTextList   the text_list editor on every short text               *)
(*   SpecAddLink    a links section is added, given a link and saved       *)
(*   SpecUpload     uploads of a profile picture and a banner              *)
(*   SpecCard       the public card on every short list of sections        *)
(*   SpecTwoSessions  two dashboard sessions saving one section            *)
(*   SpecPositions  sections added after others were deleted               *)
(*   SpecReloads    reloads whose responses arrive in any order            *)
(*   SpecReloadsInOrder  the same with responses in the order of queries   *)
(*                                                                         *)
(* The dashboard's editor keeps its state in page; a handler in flight     *)
(* occupies one slot of ops.  The second dashboard session is peer, the    *)
(* mounted public card is card.  The sections table and the storage bucket *)
(* are not part of the sources and follow the specification.               *)
(*                                                                         *)
(* In every specification but SpecReloads the response of the sections     *)
(* query of a reload arrives in the step in which the store answers it.    *)
(***************************************************************************)
EXTENDS Integers, Sequences, FiniteSets, TLC

\* Number of concurrent executions of the profile route.
MaxReq == 2
Null == <<>>

Falsy(s) == s = Null

(***************************************************************************)
(* Characters and String.prototype.toLowerCase                             *)
(***************************************************************************)
LowerLetters ==
    << "a","b","c","d","e","f","g","h","i","j","k","l","m",
       "n","o","p","q","r","s","t","u","v","w","x","y","z" >>

UpperLetters ==
    << "A","B","C","D","E","F","G","H","I","J","K","L","M",
       "N","O","P","Q","R","S","T","U","V","W","X","Y","Z" >>

Digits == {"0","1","2","3","4","5","6","7","8","9"}

Range(f) == { f[i] : i \in DOMAIN f }

toLowerCaseChar(c) ==
    IF c \in Range(UpperLetters)
    THEN LowerLetters[CHOOSE i \in DOMAIN UpperLetters : UpperLetters[i] = c]
    ELSE c

toLowerCase(s) == [ i \in DOMAIN s |-> toLowerCaseChar(s[i]) ]

\* String.prototype.slice(0, n)
slice0(s, n) == SubSeq(s, 1, IF Len(s) < n THEN Len(s) ELSE n)

Repeat(c, n) == [ i \in 1..n |-> c ]

(***************************************************************************)
(* Inputs                                                                  *)
(***************************************************************************)
\* Identities are issued by the auth service (UUID text): eight hexadecimal
\* digits, a dash, and the rest.
IdA == << "a", "0", "0", "0", "0", "0", "0", "1", "-", "4" >>
IdB == << "b", "0", "0", "0", "0", "0", "0", "1", "-", "4" >>

Identities == { IdA, IdB }

name_ab == << "a","b" >>
name_bob_1 == << "b","o","b","_","1" >>
name_BOB_1 == << "B","O","B","_","1" >>
name_dash == << "b","-","b" >>

text_Bob == << "B","o","b" >>

\* The body and session of a POST sent to the route by some other client than
\* the two pages.  A Null field is absent.
PostBodies ==
    [ username : { Null, name_BOB_1 },
      display_name : { Null, text_Bob },
      user_id : Identities \cup {Null},
      user : Identities \cup {Null} ]
    \cup
    [ username : { name_ab },
      display_name : { Null },
      user_id : Identities \cup {Null},
      user : Identities \cup {Null} ]

\* The requests that run beside the one request drawn from PostBodies.
BackgroundBodies ==
    { [ username |-> name_BOB_1, display_name |-> Null, user_id |-> Null, user |-> IdA ] }

(***************************************************************************)
(* The profile store.  Rows are never deleted in scope, so the next        *)
(* identifier is one more than the number of rows.                         *)
(***************************************************************************)
NoRow ==
    [ id |-> 0, user_id |-> Null, username |-> Null, display_name |-> Null,
      bio |-> Null, avatar_url |-> Null, banner_url |-> Null, theme |-> Null,
      updated_at |-> 0 ]

NoArgs == [ user_id |-> Null, username |-> Null, display_name |-> Null ]

VARIABLES
    profiles,   \* the rows of the profiles table
    authUsers,  \* identities the auth service has issued
    now,        \* the store's clock, advanced by updates
    req,        \* executions of the profile route, by slot
    signup,     \* the signup page
    dash,       \* the dashboard page (loadProfile)
    lib,        \* the module of the backend client accessor
    sectionsTable, \* the sections table: its rows and its serial
    page,       \* the dashboard page's component state
    ops,        \* the dashboard's handlers in flight, by slot
    bucket,     \* the objects of the storage bucket, by path
    card,       \* the public profile's renderer
    peer        \* the dashboard page of a second browser session

\* What the route and the signup page never touch.
editorVars == << lib, sectionsTable, page, ops, bucket, card, peer >>

vars == << profiles, authUsers, now, req, signup, dash, lib, sectionsTable, page, ops, bucket, card,
          peer >>

Slots == 1..MaxReq

\* .single(): exactly one row, or an error and no data.
single(rows) ==
    IF Cardinality(rows) = 1
    THEN [ data |-> CHOOSE p \in rows : TRUE, error |-> "" ]
    ELSE [ data |-> NoRow, error |-> "PGRST116" ]

\* .from('profiles').select(...).eq('username', u)
selectByUsername(u) == { p \in profiles : p.username = u }

\* .from('profiles').select(...).eq('user_id', id)
selectByUserId(id) == { p \in profiles : p.user_id = id }

\* The unique constraints of the profiles table: owning user, username.
UniqueOk(args) ==
    /\ selectByUserId(args.user_id) = {}
    /\ selectByUsername(args.username) = {}

NewRow(args) ==
    [ NoRow EXCEPT !.id = Cardinality(profiles) + 1,
                   !.user_id = args.user_id,
                   !.username = args.username,
                   !.display_name = args.display_name,
                   !.updated_at = now ]

\* Row-level access rule of the unprivileged insert: the caller has a session.
InsertAllowed(user) == user # Null

\* .from('profiles').insert(args).select().single()
\* The result: the row and no error, or an error and no row.
insertProfile(args, user) ==
    IF InsertAllowed(user) /\ UniqueOk(args)
    THEN [ data |-> NewRow(args), error |-> "" ]
    ELSE [ data |-> NoRow,
           error |-> IF InsertAllowed(user) THEN "duplicate key" ELSE "row-level security" ]

\* Ways a call of create_profile_for_user can end: the row is created and its
\* id returned; an error is returned; the call throws; it returns neither
\* data nor error; the row is created but the answer is lost and the call throws.
RpcOutcomes == { "created", "error", "throw", "nodata", "lost" }

\* supabase.rpc('create_profile_for_user', args): bypasses the row-level rules,
\* not the unique constraints.
\* [row: the row written or NoRow, data: the id returned or 0,
\*  error: the error returned or "", threw: the call threw]
rpcCreateProfile(args, outcome) ==
    LET writes == outcome \in {"created", "lost"} /\ UniqueOk(args)
    IN  [ row |-> IF writes THEN NewRow(args) ELSE NoRow,
          data |-> IF writes /\ outcome = "created" THEN Cardinality(profiles) + 1 ELSE 0,
          error |-> IF outcome = "error" THEN "function unavailable"
                    ELSE IF outcome = "created" /\ ~writes THEN "duplicate key"
                    ELSE "",
          threw |-> outcome \in {"throw", "lost"} ]

StoreAdd(row) == IF row = NoRow THEN profiles ELSE profiles \cup {row}

(***************************************************************************)
(* The profile route: one record per execution.                            *)
(*   caller, route   who sent the request and which handler runs it        *)
(*   username, display_name, user_id   the body of a POST                  *)
(*   patch           the body of a PATCH                                   *)
(*   user            the identity of the session cookie, Null without one  *)
(*   status, body, error   the response                                    *)
(* and, recorded for the properties: the store reads and writes made, the  *)
(* arguments of the privileged call and of the fallback insert, how often  *)
(* each was made, whether the privileged call failed and the id it         *)
(* returned, the id of the row this execution created, and what the        *)
(* store held for the identity and the username when the request arrived.  *)
(***************************************************************************)
NoPatch ==
    [ display_name |-> Null, bio |-> Null, avatar_url |-> Null,
      banner_url |-> Null, theme |-> Null ]

IdleReq ==
    [ caller |-> "none", route |-> "none", pc |-> "idle",
      username |-> Null, display_name |-> Null, user_id |-> Null,
      patch |-> NoPatch, user |-> Null, currentUserId |-> Null,
      status |-> 0, body |-> NoRow, error |-> "",
      reads |-> 0, writes |-> 0,
      rpcArgs |-> NoArgs, rpcCalls |-> 0, rpcFailed |-> FALSE, rpcData |-> 0,
      insertArgs |-> NoArgs, insertCalls |-> 0,
      created |-> 0, ownedOnArrival |-> FALSE, takenOnArrival |-> FALSE ]

Respond(q, status, body, error) ==
    [ q EXCEPT !.pc = "done", !.status = status, !.body = body, !.error = error ]

\* PostArrive with the body's user_id preferred to the session's identity.
PostArrive_BodyFirst(caller, username, display_name, user_id, user) ==
    LET q0 == [ IdleReq EXCEPT !.caller = caller, !.route = "POST",
                               !.username = username, !.display_name = display_name,
                               !.user_id = user_id ]
        currentUserId == IF user_id # Null THEN user_id ELSE user
    IN  IF Falsy(username)
        THEN Respond(q0, 400, NoRow, "Username is required")
        ELSE LET q1 == [ q0 EXCEPT !.user = user, !.currentUserId = currentUserId,
                                   !.ownedOnArrival = selectByUserId(currentUserId) # {},
                                   !.takenOnArrival =
                                       \E p \in profiles :
                                           toLowerCase(p.username) = toLowerCase(username) ]
             IN  IF Falsy(currentUserId)
                 THEN Respond(q1, 401, NoRow, "Unauthorized")
                 ELSE [ q1 EXCEPT !.pc = "check_username" ]

\* PostArrive resolving the identity before it looks at the username.
PostArrive_IdentityFirst(caller, username, display_name, user_id, user) ==
    LET currentUserId == IF user # Null THEN user ELSE user_id
        q1 == [ IdleReq EXCEPT !.caller = caller, !.route = "POST",
                               !.username = username, !.display_name = display_name,
                               !.user_id = user_id,
                               !.user = user, !.currentUserId = currentUserId,
                               !.ownedOnArrival = selectByUserId(currentUserId) # {},
                               !.takenOnArrival =
                                   \E p \in profiles :
                                       toLowerCase(p.username) = toLowerCase(username) ]
    IN  IF Falsy(currentUserId)
        THEN Respond(q1, 401, NoRow, "Unauthorized")
        ELSE IF Falsy(username)
        THEN Respond(q1, 400, NoRow, "Username is required")
        ELSE [ q1 EXCEPT !.pc = "check_username" ]

\* POST, lines 27-43: parse the body, require a username, resolve the identity.
\* `user` is what supabase.auth.getUser() answers for the request's cookies.
PostArrive(caller, username, display_name, user_id, user) ==
    LET q0 == [ IdleReq EXCEPT !.caller = caller, !.route = "POST",
                               !.username = username, !.display_name = display_name,
                               !.user_id = user_id ]
        currentUserId == IF user # Null THEN user ELSE user_id
    IN  IF Falsy(username)
        THEN Respond(q0, 400, NoRow, "Username is required")
        ELSE LET q1 == [ q0 EXCEPT !.user = user, !.currentUserId = currentUserId,
                                   !.ownedOnArrival = selectByUserId(currentUserId) # {},
                                   !.takenOnArrival =
                                       \E p \in profiles :
                                           toLowerCase(p.username) = toLowerCase(username) ]
             IN  IF Falsy(currentUserId)
                 THEN Respond(q1, 401, NoRow, "Unauthorized")
                 ELSE [ q1 EXCEPT !.pc = "check_username" ]

\* PostCheckUsernameStep looking the username up as it was sent.
PostCheckUsernameStep_AsSent(q) ==
    LET existingProfile == single(selectByUsername(q.username)).data
        q1 == [ q EXCEPT !.reads = @ + 1 ]
    IN  IF existingProfile # NoRow
        THEN Respond(q1, 400, NoRow, "Username is already taken")
        ELSE [ q1 EXCEPT !.pc = "check_user" ]

\* POST, lines 45-54: is the username already taken?
PostCheckUsernameStep(q) ==
    LET existingProfile == single(selectByUsername(toLowerCase(q.username))).data
        q1 == [ q EXCEPT !.reads = @ + 1 ]
    IN  IF existingProfile # NoRow
        THEN Respond(q1, 400, NoRow, "Username is already taken")
        ELSE [ q1 EXCEPT !.pc = "check_user" ]

\* PostCheckUserStep without the check.
PostCheckUserStep_NoCheck(q) == [ q EXCEPT !.reads = @ + 1, !.pc = "rpc" ]

\* POST, lines 56-65: does the identity already have a profile?
PostCheckUserStep(q) ==
    LET existingUserProfile == single(selectByUserId(q.currentUserId)).data
        q1 == [ q EXCEPT !.reads = @ + 1 ]
    IN  IF existingUserProfile # NoRow
        THEN Respond(q1, 400, NoRow, "Profile already exists")
        ELSE [ q1 EXCEPT !.pc = "rpc" ]

\* The fields both creation paths are given, lines 70-72 and 91-93.
PostRpcArgs(q) ==
    [ user_id |-> q.currentUserId,
      username |-> toLowerCase(q.username),
      display_name |-> IF Falsy(q.display_name) THEN q.username ELSE q.display_name ]

\* PostInsertArgs with the username as it was sent.
PostInsertArgs_AsSent(q) ==
    [ user_id |-> q.currentUserId,
      username |-> q.username,
      display_name |-> IF Falsy(q.display_name) THEN q.username ELSE q.display_name ]

PostInsertArgs(q) ==
    [ user_id |-> q.currentUserId,
      username |-> toLowerCase(q.username),
      display_name |-> IF Falsy(q.display_name) THEN q.username ELSE q.display_name ]

\* The body of the 201 answer of the privileged path, line 76.
PostRpcBody(q, profileData) ==
    [ NoRow EXCEPT !.id = profileData, !.username = q.username,
                   !.display_name = q.display_name ]

\* PostRpcStep answering 201 whenever the call did not throw.
PostRpcStep_NoErrorCheck(q, res) ==
    LET q1 == [ q EXCEPT !.writes = @ + 1, !.rpcArgs = PostRpcArgs(q),
                         !.rpcCalls = @ + 1,
                         !.rpcFailed = res.threw \/ res.error # "",
                         !.rpcData = IF res.threw THEN 0 ELSE res.data,
                         !.created = res.row.id ]
    IN  IF ~ res.threw
        THEN Respond(q1, 201, PostRpcBody(q, res.data), "")
        ELSE [ q1 EXCEPT !.pc = "insert" ]

\* PostRpcStep without the return at line 76.
PostRpcStep_FallThrough(q, res) ==
    [ q EXCEPT !.writes = @ + 1, !.rpcArgs = PostRpcArgs(q),
               !.rpcCalls = @ + 1,
               !.rpcFailed = res.threw \/ res.error # "",
               !.rpcData = IF res.threw THEN 0 ELSE res.data,
               !.created = res.row.id,
               !.pc = "insert" ]

\* POST, lines 67-85: the privileged creation call. res is its result.
PostRpcStep(q, res) ==
    LET q1 == [ q EXCEPT !.writes = @ + 1, !.rpcArgs = PostRpcArgs(q),
                         !.rpcCalls = @ + 1,
                         !.rpcFailed = res.threw \/ res.error # "",
                         !.rpcData = IF res.threw THEN 0 ELSE res.data,
                         !.created = res.row.id ]
    IN  IF ~ res.threw /\ res.error = "" /\ res.data # 0
        THEN Respond(q1, 201, PostRpcBody(q, res.data), "")
        ELSE [ q1 EXCEPT !.pc = "insert" ]

\* PostInsertStep answering a duplicate key as a taken username.
PostInsertStep_Taken(q, res) ==
    LET q1 == [ q EXCEPT !.writes = @ + 1, !.insertArgs = PostInsertArgs(q),
                         !.insertCalls = @ + 1,
                         !.created = IF res.data # NoRow THEN res.data.id ELSE @ ]
    IN  IF res.error = "duplicate key"
        THEN Respond(q1, 400, NoRow, "Username is already taken")
        ELSE IF res.error # ""
        THEN Respond(q1, 500, NoRow, res.error)
        ELSE Respond(q1, 201, res.data, "")

\* POST, lines 87-103: the fallback insert. res is its result.
PostInsertStep(q, res) ==
    LET q1 == [ q EXCEPT !.writes = @ + 1, !.insertArgs = PostInsertArgs(q),
                         !.insertCalls = @ + 1,
                         !.created = IF res.data # NoRow THEN res.data.id ELSE @ ]
    IN  IF res.error # ""
        THEN Respond(q1, 500, NoRow, res.error)
        ELSE Respond(q1, 201, res.data, "")

PostCheckUsername(r) ==
    /\ req[r].route = "POST" /\ req[r].pc = "check_username"
    /\ req' = [ req EXCEPT ![r] = PostCheckUsernameStep(@) ]
    /\ UNCHANGED << profiles, authUsers, now, signup, dash >> /\ UNCHANGED editorVars

PostCheckUser(r) ==
    /\ req[r].route = "POST" /\ req[r].pc = "check_user"
    /\ req' = [ req EXCEPT ![r] = PostCheckUserStep(@) ]
    /\ UNCHANGED << profiles, authUsers, now, signup, dash >> /\ UNCHANGED editorVars

PostRpc(r) ==
    /\ req[r].route = "POST" /\ req[r].pc = "rpc"
    /\ \E outcome \in RpcOutcomes :
          LET res == rpcCreateProfile(PostRpcArgs(req[r]), outcome)
          IN  /\ profiles' = StoreAdd(res.row)
              /\ req' = [ req EXCEPT ![r] = PostRpcStep(@, res) ]
    /\ UNCHANGED << authUsers, now, signup, dash >> /\ UNCHANGED editorVars

PostInsert(r) ==
    /\ req[r].route = "POST" /\ req[r].pc = "insert"
    /\ LET res == insertProfile(PostInsertArgs(req[r]), req[r].user)
       IN  /\ profiles' = StoreAdd(res.data)
           /\ req' = [ req EXCEPT ![r] = PostInsertStep(@, res) ]
    /\ UNCHANGED << authUsers, now, signup, dash >> /\ UNCHANGED editorVars

\* A request sent to the route by some other client than the two pages: slot 1
\* takes any body, the other slots the background's.  Identities come from the
\* auth service, so only issued ones appear.
BodiesOf(r) == IF r = 1 THEN PostBodies ELSE BackgroundBodies

DirectPostFrom(r, Bodies) ==
    /\ req[r].pc = "idle"
    /\ \E b \in Bodies :
          /\ b.user_id \in authUsers \cup {Null}
          /\ b.user \in authUsers \cup {Null}
          /\ req' = [ req EXCEPT ![r] =
                        PostArrive("direct", b.username, b.display_name, b.user_id, b.user) ]
    /\ UNCHANGED << profiles, authUsers, now, signup, dash >> /\ UNCHANGED editorVars

\* The background's slots are filled in order.
DirectPost(r) ==
    /\ r > 2 => req[r - 1].pc # "idle"
    /\ DirectPostFrom(r, BodiesOf(r))

\* The slot a page's request is given: the lowest free one.
FreeSlot(r) == req[r].pc = "idle" /\ \A r2 \in 1..(r - 1) : req[r2].pc # "idle"

\* The caller has read the response; the slot is free again.
Retire(r) ==
    /\ req[r].pc = "done" /\ req[r].caller = "direct"
    /\ req' = [ req EXCEPT ![r] = IdleReq ]
    /\ UNCHANGED << profiles, authUsers, now, signup, dash >> /\ UNCHANGED editorVars

(***************************************************************************)
(* GET and PATCH                                                           *)
(***************************************************************************)
\* Number of updates the store's clock is followed for.
MaxClock == 1

text_New == << "N","e","w" >>
text_Hi == << "H","i" >>
text_url == << "u","r","l" >>

\* Bodies a caller may send with a PATCH; a Null field is absent from the body.
PatchBodies ==
    { NoPatch,
      [ NoPatch EXCEPT !.display_name = text_New, !.bio = text_Hi ],
      [ NoPatch EXCEPT !.avatar_url = text_url, !.banner_url = text_url,
                       !.theme = text_New ] }

\* GetArrive without the session check.
GetArrive_NoAuth(caller, user) ==
    [ IdleReq EXCEPT !.caller = caller, !.route = "GET", !.user = user,
                     !.ownedOnArrival = selectByUserId(user) # {},
                     !.pc = "lookup" ]

\* GET, lines 5-12.
GetArrive(caller, user) ==
    LET q0 == [ IdleReq EXCEPT !.caller = caller, !.route = "GET", !.user = user,
                               !.ownedOnArrival = selectByUserId(user) # {} ]
    IN  IF user = Null
        THEN Respond(q0, 401, NoRow, "Unauthorized")
        ELSE [ q0 EXCEPT !.pc = "lookup" ]

\* GET, lines 14-24.
GetLookupStep(q) ==
    LET res == single(selectByUserId(q.user))
        q1 == [ q EXCEPT !.reads = @ + 1 ]
    IN  IF res.error # ""
        THEN Respond(q1, 500, NoRow, res.error)
        ELSE Respond(q1, 200, res.data, "")

\* PATCH, lines 106-116.
PatchArrive(caller, user, patch) ==
    LET q0 == [ IdleReq EXCEPT !.caller = caller, !.route = "PATCH", !.user = user,
                               !.ownedOnArrival = selectByUserId(user) # {} ]
    IN  IF user = Null
        THEN Respond(q0, 401, NoRow, "Unauthorized")
        ELSE [ q0 EXCEPT !.pc = "update", !.patch = patch ]

\* .update(patch): fields absent from the body keep their value.
applyPatch(p, patch, at) ==
    [ p EXCEPT !.display_name = IF patch.display_name = Null THEN @ ELSE patch.display_name,
               !.bio = IF patch.bio = Null THEN @ ELSE patch.bio,
               !.avatar_url = IF patch.avatar_url = Null THEN @ ELSE patch.avatar_url,
               !.banner_url = IF patch.banner_url = Null THEN @ ELSE patch.banner_url,
               !.theme = IF patch.theme = Null THEN @ ELSE patch.theme,
               !.updated_at = at ]

\* .from('profiles').update(patch).eq('user_id', id): the table afterwards.
updateByUserId(id, patch, at) ==
    { IF p.user_id = id THEN applyPatch(p, patch, at) ELSE p : p \in profiles }

\* PATCH, lines 118-136. after is the table once the update is applied.
PatchUpdateStep(q, after) ==
    LET res == single({ p \in after : p.user_id = q.user })
        q1 == [ q EXCEPT !.writes = @ + 1 ]
    IN  IF res.error # ""
        THEN Respond(q1, 500, NoRow, res.error)
        ELSE Respond(q1, 200, res.data, "")

DirectGet(r) ==
    /\ req[r].pc = "idle"
    /\ \E user \in authUsers \cup {Null} :
          req' = [ req EXCEPT ![r] = GetArrive("direct", user) ]
    /\ UNCHANGED << profiles, authUsers, now, signup, dash >> /\ UNCHANGED editorVars

GetLookup(r) ==
    /\ req[r].route = "GET" /\ req[r].pc = "lookup"
    /\ req' = [ req EXCEPT ![r] = GetLookupStep(@) ]
    /\ UNCHANGED << profiles, authUsers, now, signup, dash >> /\ UNCHANGED editorVars

PendingPatches ==
    Cardinality({ r \in Slots : req[r].route = "PATCH" /\ req[r].pc = "update" })

DirectPatch(r) ==
    /\ req[r].pc = "idle"
    /\ now + PendingPatches < MaxClock
    /\ \E user \in authUsers \cup {Null}, patch \in PatchBodies :
          req' = [ req EXCEPT ![r] = PatchArrive("direct", user, patch) ]
    /\ UNCHANGED << profiles, authUsers, now, signup, dash >> /\ UNCHANGED editorVars

PatchUpdate(r) ==
    /\ req[r].route = "PATCH" /\ req[r].pc = "update"
    /\ now' = now + 1
    /\ profiles' = updateByUserId(req[r].user, req[r].patch, now')
    /\ req' = [ req EXCEPT ![r] = PatchUpdateStep(@, profiles') ]
    /\ UNCHANGED << authUsers, signup, dash >> /\ UNCHANGED editorVars

(***************************************************************************)
(* The signup page                                                         *)
(***************************************************************************)
MinUsernameLen == 3
MaxUsernameLen == 20

\* What a visitor may type into the username field.
TypedNames ==
    { name_ab, name_BOB_1, name_dash,
      Repeat("x", MaxUsernameLen), Repeat("x", MaxUsernameLen + 1) }

MsgLength == "Username must be 3-20 characters"
MsgCharset == "Username can only contain letters, numbers, and underscores"
MsgTaken == "Username is already taken"
MsgNoUser == "Failed to create user account"
MsgAuth == "auth error"
MsgApiFailed == "Profile creation failed"
MsgApiThrew == "Failed to create profile. Please try again or contact support."
MsgConfirm == "Account created! Please check your email to confirm your account, then log in."

\* /^[a-zA-Z0-9_]+$/.test(username)
usernameRegexTest(u) ==
    /\ Len(u) >= 1
    /\ \A i \in DOMAIN u :
          u[i] \in Range(LowerLetters) \cup Range(UpperLetters) \cup Digits \cup {"_"}

\* The component's state, and the locals of the running handleSignup:
\* submitted is the username the handler closed over, user and session are
\* authData's, calls counts the backend calls the handler has made (lookup,
\* sign-up, privileged call, fetch), fetches the POSTs it has sent,
\* takenOnSubmit records whether the store held the username, ignoring case,
\* when a valid form was submitted, and rpc how the privileged call ended.
SignupInit ==
    [ pc |-> "idle", username |-> Null, error |-> "", loading |-> FALSE,
      ran |-> FALSE, submitted |-> Null, user |-> Null, session |-> FALSE,
      profileCreated |-> FALSE, calls |-> 0, fetches |-> 0, slot |-> 0,
      takenOnSubmit |-> FALSE, rpc |-> "none" ]

\* The dashboard before loadProfile has run.
DashInit ==
    [ pc |-> "idle", user |-> Null, profile |-> NoRow, toLogin |-> FALSE,
      posts |-> 0, slot |-> 0,
      lookups |-> 0, lookupError |-> "", sectionReads |-> 0 ]

\* Leave the handler with a message, lines 24-26 and alike.
SignupFail(s, msg) == [ s EXCEPT !.pc = "idle", !.error = msg, !.loading = FALSE ]

SignupReset(s) ==
    [ s EXCEPT !.error = "", !.loading = TRUE, !.ran = TRUE,
               !.submitted = s.username, !.user = Null, !.session = FALSE,
               !.profileCreated = FALSE, !.calls = 0, !.fetches = 0,
               !.takenOnSubmit = FALSE, !.rpc = "none" ]

SignupProceed(s) ==
    [ s EXCEPT !.pc = "lookup",
               !.takenOnSubmit =
                   \E p \in profiles : toLowerCase(p.username) = toLowerCase(s.username) ]

\* handleSignupValidate without the upper limit of the length.
handleSignupValidate_NoUpper(s) ==
    IF Len(s.username) < 3
    THEN SignupFail(SignupReset(s), "Username must be 3-20 characters")
    ELSE IF ~ usernameRegexTest(s.username)
    THEN SignupFail(SignupReset(s),
                    "Username can only contain letters, numbers, and underscores")
    ELSE SignupProceed(SignupReset(s))

\* handleSignup, lines 17-33: reset, then validate the username.
handleSignupValidate(s) ==
    IF Len(s.username) < MinUsernameLen \/ Len(s.username) > MaxUsernameLen
    THEN SignupFail(SignupReset(s), MsgLength)
    ELSE IF ~ usernameRegexTest(s.username)
    THEN SignupFail(SignupReset(s), MsgCharset)
    ELSE SignupProceed(SignupReset(s))

\* handleSignup, lines 137-149: the end of the handler.
handleSignupFinish(s) ==
    IF ~ s.session
    THEN SignupFail(s, MsgConfirm)
    ELSE [ s EXCEPT !.pc = "redirected" ]

\* onChange of the username field, line 166.
SetUsernameFrom(Names) ==
    /\ signup.pc = "idle" /\ dash = DashInit
    /\ \E v \in Names : signup' = [ signup EXCEPT !.username = toLowerCase(v) ]
    /\ UNCHANGED << profiles, authUsers, now, req, dash >> /\ UNCHANGED editorVars

SetUsername == SetUsernameFrom(TypedNames)

\* The form is submitted; the button is disabled while loading.
HandleSignup ==
    /\ signup.pc = "idle" /\ ~ signup.loading /\ dash = DashInit
    /\ signup' = handleSignupValidate(signup)
    /\ UNCHANGED << profiles, authUsers, now, req, dash >> /\ UNCHANGED editorVars

\* handleSignup, lines 35-46.
SignupLookup ==
    /\ signup.pc = "lookup"
    /\ LET existingProfile == single(selectByUsername(toLowerCase(signup.submitted))).data
           s1 == [ signup EXCEPT !.calls = @ + 1 ]
       IN  signup' = IF existingProfile # NoRow
                     THEN SignupFail(s1, MsgTaken)
                     ELSE [ s1 EXCEPT !.pc = "signUp" ]
    /\ UNCHANGED << profiles, authUsers, now, req, dash >> /\ UNCHANGED editorVars

\* handleSignup, lines 48-67: supabase.auth.signUp answers an error, no user,
\* or a new user with or without a session.
SignupAuth ==
    /\ signup.pc = "signUp"
    /\ LET s1 == [ signup EXCEPT !.calls = @ + 1 ]
       IN  \/ /\ signup' = SignupFail(s1, MsgAuth)
              /\ UNCHANGED authUsers
           \/ /\ signup' = SignupFail(s1, MsgNoUser)
              /\ UNCHANGED authUsers
           \/ \E id \in Identities \ authUsers, session \in BOOLEAN :
                 /\ authUsers' = authUsers \cup {id}
                 /\ signup' = [ s1 EXCEPT !.pc = "rpc", !.user = id, !.session = session ]
    /\ UNCHANGED << profiles, now, req, dash >> /\ UNCHANGED editorVars

\* The parameters of the page's privileged call, lines 71-75.
SignupRpcArgs(s) ==
    [ user_id |-> s.user, username |-> toLowerCase(s.submitted),
      display_name |-> s.submitted ]

\* How the privileged call ended, as the handler sees it at lines 82-96.
rpcEnded(res) ==
    IF res.threw THEN "threw"
    ELSE IF res.error # "" THEN "error"
    ELSE IF res.data # 0 THEN "data"
    ELSE "nodata"

\* handleSignupAfterRpc taking every answer without an error as a creation.
handleSignupAfterRpc_NoDataCheck(s, res) ==
    LET profileCreated == ~ res.threw /\ res.error = ""
        s1 == [ s EXCEPT !.calls = @ + 1, !.profileCreated = profileCreated,
                         !.rpc = rpcEnded(res) ]
    IN  IF profileCreated THEN handleSignupFinish(s1) ELSE [ s1 EXCEPT !.pc = "fetch" ]

\* handleSignup, lines 77-99: after the privileged call.
handleSignupAfterRpc(s, res) ==
    LET profileCreated == ~ res.threw /\ res.error = "" /\ res.data # 0
        s1 == [ s EXCEPT !.calls = @ + 1, !.profileCreated = profileCreated,
                         !.rpc = rpcEnded(res) ]
    IN  IF profileCreated THEN handleSignupFinish(s1) ELSE [ s1 EXCEPT !.pc = "fetch" ]

SignupRpc ==
    /\ signup.pc = "rpc"
    /\ \E outcome \in RpcOutcomes :
          LET res == rpcCreateProfile(SignupRpcArgs(signup), outcome)
          IN  /\ profiles' = StoreAdd(res.row)
              /\ signup' = handleSignupAfterRpc(signup, res)
    /\ UNCHANGED << authUsers, now, req, dash >> /\ UNCHANGED editorVars

\* handleSignup, lines 101-113: the POST is sent.  The page's client keeps its
\* session outside the cookies, so the route may or may not see it.
SignupFetch(r) ==
    /\ signup.pc = "fetch" /\ FreeSlot(r)
    /\ \E cookie \in {Null} \cup (IF signup.session THEN {signup.user} ELSE {}) :
          req' = [ req EXCEPT ![r] =
                     PostArrive("signup", toLowerCase(signup.submitted),
                                signup.submitted, signup.user, cookie) ]
    /\ signup' = [ signup EXCEPT !.pc = "await", !.slot = r,
                                 !.calls = @ + 1, !.fetches = @ + 1 ]
    /\ UNCHANGED << profiles, authUsers, now, dash >> /\ UNCHANGED editorVars

\* handleSignup, lines 129-134: fetch throws, the request never arrives.
SignupFetchThrows ==
    /\ signup.pc = "fetch"
    /\ signup' = SignupFail([ signup EXCEPT !.calls = @ + 1, !.fetches = @ + 1 ],
                            MsgApiThrew)
    /\ UNCHANGED << profiles, authUsers, now, req, dash >> /\ UNCHANGED editorVars

\* handleSignup, lines 115-128: the response has arrived.
handleSignupAfterFetch(s, response) ==
    LET ok == response.status >= 200 /\ response.status <= 299
        s1 == [ s EXCEPT !.slot = 0, !.profileCreated = ok ]
    IN  IF ~ ok THEN SignupFail(s1, MsgApiFailed) ELSE handleSignupFinish(s1)

SignupAwait ==
    /\ signup.pc = "await" /\ req[signup.slot].pc = "done"
    /\ signup' = handleSignupAfterFetch(signup, req[signup.slot])
    /\ req' = [ req EXCEPT ![signup.slot] = IdleReq ]
    /\ UNCHANGED << profiles, authUsers, now, dash >> /\ UNCHANGED editorVars

\* The browser shows one page at a time.  The signup page is opened anew, from
\* itself or from the dashboard.
SignupOpen ==
    /\ signup.pc \in {"idle", "redirected"} /\ dash.pc = "idle"
    /\ signup.ran \/ dash # DashInit
    /\ signup' = SignupInit
    /\ dash' = DashInit
    /\ UNCHANGED << profiles, authUsers, now, req >> /\ UNCHANGED editorVars

(***************************************************************************)
(* The dashboard: the lazy provisioning branch of loadProfile              *)
(***************************************************************************)
text_user_ == << "u","s","e","r","_" >>
text_NewUser == << "N","e","w"," ","U","s","e","r" >>

\* The username of the lazily created profile, line 529.
lazyUsername(id) == text_user_ \o slice0(id, 8)

\* loadProfile, lines 501-507: the dashboard is opened, the signup page left.
DashLoad ==
    /\ dash.pc = "idle" /\ signup.pc \in {"idle", "redirected"}
    /\ \E user \in authUsers \cup {Null} :
          dash' = IF user = Null
                  THEN [ DashInit EXCEPT !.toLogin = TRUE ]
                  ELSE [ DashInit EXCEPT !.pc = "lookup", !.user = user ]
    /\ signup' = SignupInit
    /\ UNCHANGED << profiles, authUsers, now, req >> /\ UNCHANGED editorVars

\* How the lookup of the profile can end: the store answers, or the request
\* fails with an error of another code than PGRST116.
LookupOutcomes == { "answer", "error" }

lookupProfile(user, outcome) ==
    IF outcome = "answer" THEN single(selectByUserId(user))
    ELSE [ data |-> NoRow, error |-> "other" ]

\* The lookup's result creating a profile on every error.
dashLookup_AnyError(d, res) ==
    LET d1 == [ d EXCEPT !.lookups = @ + 1, !.lookupError = res.error ]
    IN  IF res.error # ""
        THEN [ d1 EXCEPT !.pc = "fetch" ]
        ELSE [ d1 EXCEPT !.pc = "sections", !.profile = res.data ]

\* loadProfile, lines 509-523 and 548-555: the lookup has answered.
dashLookup(d, res) ==
    LET d1 == [ d EXCEPT !.lookups = @ + 1, !.lookupError = res.error ]
    IN  IF res.error = "PGRST116"
        THEN [ d1 EXCEPT !.pc = "fetch" ]
        ELSE IF res.data # NoRow
        THEN [ d1 EXCEPT !.pc = "sections", !.profile = res.data ]
        ELSE [ d1 EXCEPT !.pc = "idle" ]

DashLookup ==
    /\ dash.pc = "lookup"
    /\ \E outcome \in LookupOutcomes :
          dash' = dashLookup(dash, lookupProfile(dash.user, outcome))
    /\ UNCHANGED << profiles, authUsers, now, req, signup >> /\ UNCHANGED editorVars

\* loadProfile, lines 557-584: the sections of the profile are read.
DashSections ==
    /\ dash.pc = "sections"
    /\ dash' = [ dash EXCEPT !.pc = "idle", !.sectionReads = @ + 1 ]
    /\ UNCHANGED << profiles, authUsers, now, req, signup >> /\ UNCHANGED editorVars

\* loadProfile, lines 523-532: the POST is sent, with the page's cookies.
DashFetch(r) ==
    /\ dash.pc = "fetch" /\ FreeSlot(r)
    /\ \E cookie \in {Null, dash.user} :
          req' = [ req EXCEPT ![r] =
                     PostArrive("dashboard", lazyUsername(dash.user), text_NewUser,
                                Null, cookie) ]
    /\ dash' = [ dash EXCEPT !.pc = "await", !.slot = r, !.posts = @ + 1 ]
    /\ UNCHANGED << profiles, authUsers, now, signup >> /\ UNCHANGED editorVars

\* loadProfile, lines 534-541.
DashAwait ==
    /\ dash.pc = "await" /\ req[dash.slot].pc = "done"
    /\ LET response == req[dash.slot]
           ok == response.status >= 200 /\ response.status <= 299
       IN  dash' = [ dash EXCEPT !.pc = "idle", !.slot = 0,
                                 !.profile = IF ok THEN response.body ELSE @ ]
    /\ req' = [ req EXCEPT ![dash.slot] = IdleReq ]
    /\ UNCHANGED << profiles, authUsers, now, signup >> /\ UNCHANGED editorVars

(***************************************************************************)
(* The backend client accessor                                             *)
(*                                                                         *)
(* The two configuration values are fixed when the process starts; the     *)
(* pages call the accessor on every render.  A handle is the pair of       *)
(* values it was constructed from, numbered by construction.               *)
(***************************************************************************)
\* Number of calls of the accessor in one process.
MaxCalls == 5

env_url_a == << "u","a" >>
env_url_b == << "u","b" >>
env_key_a == << "k","a" >>
env_key_b == << "k","b" >>
EnvUrls == { Null, env_url_a, env_url_b }
EnvKeys == { Null, env_key_a, env_key_b }

MsgMissingEnv == "Missing Supabase environment variables"

\* The pages whose render calls the accessor.
Callers == { "SignupPage", "DashboardPage" }

\* `null`, the module variable before the first construction.
NoClient == [ id |-> 0, url |-> Null, key |-> Null ]

NoResult == [ called |-> FALSE, value |-> NoClient, error |-> "" ]

\* The module when the process starts, under a given environment.
LibStart(url, key) ==
    [ NEXT_PUBLIC_SUPABASE_URL |-> url, NEXT_PUBLIC_SUPABASE_ANON_KEY |-> key,
      supabaseClient |-> NoClient,
      constructions |-> 0, calls |-> 0, returned |-> {},
      got |-> [ c \in Callers |-> NoResult ] ]

LibInit == LibStart(env_url_a, env_key_a)

\* createClient of the backend's library: a new handle on every call.
createClient(m, supabaseUrl, supabaseKey) ==
    [ id |-> m.constructions + 1, url |-> supabaseUrl, key |-> supabaseKey ]

\* The accessor without its first test: a handle per call.
getSupabaseClient_NoMemo(m) ==
    LET supabaseUrl == m.NEXT_PUBLIC_SUPABASE_URL
        supabaseKey == m.NEXT_PUBLIC_SUPABASE_ANON_KEY
    IN  IF Falsy(supabaseUrl) \/ Falsy(supabaseKey)
        THEN [ module |-> m, value |-> NoClient, error |-> MsgMissingEnv ]
        ELSE LET made == createClient(m, supabaseUrl, supabaseKey)
             IN  [ module |-> [ m EXCEPT !.supabaseClient = made,
                                         !.constructions = @ + 1 ],
                   value |-> made, error |-> "" ]

\* getSupabaseClient, lines 361-375: the module after the call, and what the
\* call returned or threw.
getSupabaseClient(m) ==
    IF m.supabaseClient # NoClient
    THEN [ module |-> m, value |-> m.supabaseClient, error |-> "" ]
    ELSE LET supabaseUrl == m.NEXT_PUBLIC_SUPABASE_URL
             supabaseKey == m.NEXT_PUBLIC_SUPABASE_ANON_KEY
         IN  IF Falsy(supabaseUrl) \/ Falsy(supabaseKey)
             THEN [ module |-> m, value |-> NoClient, error |-> MsgMissingEnv ]
             ELSE LET made == createClient(m, supabaseUrl, supabaseKey)
                  IN  [ module |-> [ m EXCEPT !.supabaseClient = made,
                                              !.constructions = @ + 1 ],
                        value |-> made, error |-> "" ]

\* A page renders and calls the accessor.
GetSupabaseClient(c) ==
    /\ lib.calls < MaxCalls
    /\ LET res == getSupabaseClient(lib)
       IN  lib' = [ res.module EXCEPT
                      !.calls = @ + 1,
                      !.returned = IF res.error = "" THEN @ \cup { res.value } ELSE @,
                      !.got[c] = [ called |-> TRUE, value |-> res.value,
                                   error |-> res.error ] ]
    /\ UNCHANGED << profiles, authUsers, now, req, signup, dash, sectionsTable, page, ops, bucket, card, peer >>

(***************************************************************************)
(* The dashboard's editor: state                                           *)
(***************************************************************************)
\* Sections ever inserted into the table.
MaxSections == 2
\* Entries of one content array that the editors build.
MaxItems == 2
\* Handlers of the dashboard in flight at once.
MaxOps == 2

SectionTypes == { "text_list", "links", "gallery" }

\* A content payload is an object: a function from its keys to arrays.  The
\* empty function stands for {} and for a payload that is null.
EmptyContent == << >>

\* content?.key, undefined read as the falsy value.
Get(content, key) == IF key \in DOMAIN content THEN content[key] ELSE Null

\* { ...content, key: value }
Put(content, key, value) ==
    [ k \in (DOMAIN content) \cup { key } |-> IF k = key THEN value ELSE content[k] ]

\* The array a type's editor and renderer read.
ContentKey(type) ==
    IF type = "text_list" THEN "items"
    ELSE IF type = "links" THEN "links" ELSE "images"

text_First_item == << "F","i","r","s","t"," ","i","t","e","m" >>
text_Second_item == << "S","e","c","o","n","d"," ","i","t","e","m" >>
MyLink == [ title |-> "My Link", url |-> "https://example.com" ]
NewLink == [ title |-> "New link", url |-> "https://example.com" ]
NewImage == [ url |-> "https://placehold.co/600x400", caption |-> "" ]

\* The defaults with a links section that starts empty.
defaultContent_NoLink(type) ==
    IF type = "text_list" THEN Put(EmptyContent, "items", << text_First_item, text_Second_item >>)
    ELSE IF type = "links" THEN Put(EmptyContent, "links", << >>)
    ELSE Put(EmptyContent, "images", << >>)

\* addSection, lines 704-708.
defaultContent(type) ==
    IF type = "text_list" THEN Put(EmptyContent, "items", << text_First_item, text_Second_item >>)
    ELSE IF type = "links" THEN Put(EmptyContent, "links", << MyLink >>)
    ELSE Put(EmptyContent, "images", << >>)

\* `New ${type.replace('_', ' ')}`, line 712.
defaultTitle(type) ==
    IF type = "text_list" THEN "New text list"
    ELSE IF type = "links" THEN "New links" ELSE "New gallery"

(***************************************************************************)
(* The sections table.  A row gets the next serial as its identifier and   *)
(* is visible unless told otherwise; rows of equal position come back in   *)
(* any order.                                                              *)
(***************************************************************************)
NoSection ==
    [ id |-> 0, profile_id |-> 0, title |-> "", type |-> "", content |-> EmptyContent,
      position |-> 0, visible |-> TRUE, updated_at |-> 0 ]

EmptyTable == [ rows |-> {}, serial |-> 0 ]

\* .from('sections').insert(data)
insertSection(t, data) ==
    [ rows |-> t.rows \cup
                 { [ NoSection EXCEPT !.id = t.serial + 1,
                                      !.profile_id = data.profile_id,
                                      !.title = data.title, !.type = data.type,
                                      !.content = data.content,
                                      !.position = data.position ] },
      serial |-> t.serial + 1 ]

\* .from('sections').update(patch).eq('id', id)
updateSection(t, id, patch) ==
    [ t EXCEPT !.rows =
        { IF s.id = id
          THEN [ s EXCEPT !.title = patch.title, !.content = patch.content,
                          !.visible = patch.visible, !.updated_at = patch.updated_at ]
          ELSE s : s \in @ } ]

\* .from('sections').delete().eq('id', id)
deleteSectionRow(t, id) == [ t EXCEPT !.rows = { s \in @ : s.id # id } ]

\* The orders in which a set of rows can come back under .order('position').
OrderedByPosition(S) ==
    { q \in [ 1..Cardinality(S) -> S ] :
        \A i, j \in 1..Cardinality(S) :
            i < j => q[i] # q[j] /\ q[i].position <= q[j].position }

\* .from('sections').select('*').eq('profile_id', id).order('position')
selectSections(t, profileId) ==
    OrderedByPosition({ s \in t.rows : s.profile_id = profileId })

(***************************************************************************)
(* The dashboard's editor: the component's state                           *)
(***************************************************************************)
\* useState, lines 481-493.  alert is the last message the page showed with
\* alert(), toLogin records that it left for the login page.
PageInit ==
    [ profile |-> NoRow, sections |-> << >>, loading |-> TRUE,
      displayName |-> Null, bio |-> Null, avatarUrl |-> Null, bannerUrl |-> Null,
      uploadingAvatar |-> FALSE, uploadingBanner |-> FALSE,
      sectionEdits |-> << >>, savingSectionId |-> 0,
      alert |-> Null, toLogin |-> FALSE ]

OpSlots == 1..MaxOps

\* A handler that is not running.
NoOp ==
    [ kind |-> "none", pc |-> "idle", id |-> 0, user |-> Null, profileId |-> 0,
      data |-> NoSection, path |-> Null, file |-> Null,
      answered |-> FALSE, sectionsData |-> << >> ]

OpsInit == [ o \in OpSlots |-> NoOp ]

(***************************************************************************)
(* The dashboard's editor: drafts                                          *)
(***************************************************************************)
\* The draft that updateSectionEdit starts from when none exists, line 731.
NoDraft == [ title |-> "", content |-> EmptyContent, visible |-> TRUE ]

HasDraft(edits, id) == id \in DOMAIN edits

\* The seeding that takes the payload as stored.
normalizedContent_AsStored(sec) == sec.content

\* loadProfile, lines 568-573.
normalizedContent(sec) ==
    IF sec.type = "text_list"
    THEN Put(EmptyContent, "items", Get(sec.content, "items"))
    ELSE IF sec.type = "links"
    THEN Put(EmptyContent, "links", Get(sec.content, "links"))
    ELSE Put(EmptyContent, "images", Get(sec.content, "images"))

\* loadProfile, lines 565-579: the draft map built from the loaded rows.
seedEdits(sectionsData) ==
    [ id \in { sectionsData[i].id : i \in DOMAIN sectionsData } |->
        LET sec == CHOOSE x \in Range(sectionsData) : x.id = id
        IN  [ title |-> sec.title, content |-> normalizedContent(sec),
              visible |-> sec.visible ] ]

\* The transforms the editors pass to updateSectionEdit: each copies the
\* previous draft and replaces one field, or one array of the content.
applyUpdater(prev, updater) ==
    IF updater.field = "title" THEN [ prev EXCEPT !.title = updater.value ]
    ELSE IF updater.field = "visible" THEN [ prev EXCEPT !.visible = updater.value ]
    ELSE [ prev EXCEPT !.content = Put(prev.content, updater.field, updater.value) ]

\* The same with every draft replaced by the transform's result.
updateSectionEdit_All(edits, id, updater) ==
    [ k \in (DOMAIN edits) \cup { id } |->
        applyUpdater(IF HasDraft(edits, k) THEN edits[k] ELSE NoDraft, updater) ]

\* updateSectionEdit, lines 728-733: the draft map afterwards.
updateSectionEdit(edits, id, updater) ==
    [ k \in (DOMAIN edits) \cup { id } |->
        IF k = id
        THEN applyUpdater(IF HasDraft(edits, id) THEN edits[id] ELSE NoDraft, updater)
        ELSE edits[k] ]

(***************************************************************************)
(* String.prototype.split('\n'), trim and the text_list editor             *)
(***************************************************************************)
NewLine == "\n"
WhiteSpace == { " ", "\t", NewLine }

\* text.split('\n'): the pieces between the newlines, empty ones included.
RECURSIVE splitLines(_)
splitLines(text) ==
    IF \A i \in DOMAIN text : text[i] # NewLine
    THEN << text >>
    ELSE LET k == CHOOSE i \in DOMAIN text :
                      text[i] = NewLine /\ \A j \in 1..(i - 1) : text[j] # NewLine
         IN  << SubSeq(text, 1, k - 1) >> \o splitLines(SubSeq(text, k + 1, Len(text)))

\* items.join('\n')
RECURSIVE joinLines(_)
joinLines(items) ==
    IF items = << >> THEN << >>
    ELSE IF Len(items) = 1 THEN items[1]
    ELSE items[1] \o << NewLine >> \o joinLines(Tail(items))

\* line.trim().length > 0
NotBlank(line) == \E i \in DOMAIN line : line[i] \notin WhiteSpace

\* The editor that keeps every line.
parseItems_KeepAll(text) == splitLines(text)

\* The textarea's onChange, line 1030.
parseItems(text) == SelectSeq(splitLines(text), NotBlank)

(***************************************************************************)
(* The dashboard's editor: loadProfile                                     *)
(*                                                                         *)
(* A handler in flight occupies one slot of ops from its first backend     *)
(* call to its last statement; the loadProfile that a handler starts runs  *)
(* in the handler's slot.  The page takes the lowest free slot.            *)
(***************************************************************************)
FreeOp(o) == ops[o] = NoOp /\ \A o2 \in 1..(o - 1) : ops[o2] # NoOp

\* The page shows its controls, lines 770-784.
Rendered == ~page.loading /\ page.profile # NoRow

\* The section is listed, lines 962-966.
Shown(id) == \E i \in DOMAIN page.sections : page.sections[i].id = id

ShownSection(id) == CHOOSE sec \in Range(page.sections) : sec.id = id

\* What a backend call can answer.
Outcomes == { "ok", "error" }

\* The statements that follow the handler's loadProfile, or its failed
\* write: lines 754, 654 and 697.
settle(pg, op) ==
    IF op.kind = "saveSection" THEN [ pg EXCEPT !.savingSectionId = 0 ]
    ELSE IF op.kind = "uploadAvatar" THEN [ pg EXCEPT !.uploadingAvatar = FALSE ]
    ELSE IF op.kind = "uploadBanner" THEN [ pg EXCEPT !.uploadingBanner = FALSE ]
    ELSE pg

\* loadProfile, lines 548-553 and 584: the profile lookup has answered.
loadProfileRow(pg, profileData) ==
    IF profileData # NoRow
    THEN [ pg EXCEPT !.profile = profileData,
                     !.displayName = profileData.display_name,
                     !.bio = profileData.bio,
                     !.avatarUrl = profileData.avatar_url,
                     !.bannerUrl = profileData.banner_url ]
    ELSE [ pg EXCEPT !.loading = FALSE ]

\* The reload that keeps the drafts it finds.
loadProfileSections_KeepDrafts(pg, sectionsData, answered) ==
    [ (IF answered
       THEN [ pg EXCEPT !.sections = sectionsData,
                        !.sectionEdits =
                            [ id \in DOMAIN seedEdits(sectionsData) |->
                                IF HasDraft(pg.sectionEdits, id)
                                THEN pg.sectionEdits[id]
                                ELSE seedEdits(sectionsData)[id] ] ]
       ELSE pg)
      EXCEPT !.loading = FALSE ]

\* loadProfile, lines 563-584: the sections query has answered.
loadProfileSections(pg, sectionsData, answered) ==
    [ (IF answered
       THEN [ pg EXCEPT !.sections = sectionsData,
                        !.sectionEdits = seedEdits(sectionsData) ]
       ELSE pg)
      EXCEPT !.loading = FALSE ]

StartLoad(op) == [ op EXCEPT !.pc = "getUser" ]

\* useEffect, lines 497-499: the page is mounted.
Mount(o) ==
    /\ page = PageInit /\ ops = OpsInit /\ FreeOp(o)
    /\ ops' = [ ops EXCEPT ![o] = StartLoad([ NoOp EXCEPT !.kind = "loadProfile" ]) ]
    /\ UNCHANGED << profiles, authUsers, now, req, signup, dash, lib, sectionsTable, page, bucket, card, peer >>

\* The Reset button of a section, lines 1187-1192.
ClickReset(o) ==
    /\ Rendered /\ page.sections # << >> /\ FreeOp(o)
    /\ ops' = [ ops EXCEPT ![o] = StartLoad([ NoOp EXCEPT !.kind = "loadProfile" ]) ]
    /\ UNCHANGED << profiles, authUsers, now, req, signup, dash, lib, sectionsTable, page, bucket, card, peer >>

\* loadProfile, lines 502-507.
LoadGetUserFrom(o, Users) ==
    /\ ops[o].pc = "getUser"
    /\ \E user \in Users :
          IF user = Null
          THEN /\ page' = settle([ page EXCEPT !.toLogin = TRUE ], ops[o])
               /\ ops' = [ ops EXCEPT ![o] = NoOp ]
          ELSE /\ ops' = [ ops EXCEPT ![o].pc = "profile", ![o].user = user ]
               /\ page' = page
    /\ UNCHANGED << profiles, authUsers, now, req, signup, dash, lib, sectionsTable, bucket, card, peer >>

\* loadProfile, lines 509-521 and 548-555.  The owner has a profile; the
\* branch taken when the lookup finds no row is DashLookup's.
LoadProfileRowWith(o, Answers) ==
    /\ ops[o].pc = "profile"
    /\ LET res == single(selectByUserId(ops[o].user))
       IN  /\ res.error # "PGRST116"
           /\ \E outcome \in Answers :
                 LET profileData == IF outcome = "ok" THEN res.data ELSE NoRow
                 IN  IF profileData # NoRow
                     THEN /\ page' = loadProfileRow(page, profileData)
                          /\ ops' = [ ops EXCEPT ![o].pc = "sections",
                                                 ![o].profileId = profileData.id ]
                     ELSE /\ page' = settle(loadProfileRow(page, profileData), ops[o])
                          /\ ops' = [ ops EXCEPT ![o] = NoOp ]
    /\ UNCHANGED << profiles, authUsers, now, req, signup, dash, lib, sectionsTable, bucket, card, peer >>

LoadProfileRow(o) == LoadProfileRowWith(o, Outcomes)

\* loadProfile, lines 557-584, and the statements after it in the handler:
\* the response arrives as soon as the store has answered.
LoadSectionsWith(o, Answers) ==
    /\ ops[o].pc = "sections"
    /\ \E outcome \in Answers :
       \E sectionsData \in selectSections(sectionsTable, ops[o].profileId) :
          page' = settle(loadProfileSections(page, sectionsData, outcome = "ok"), ops[o])
    /\ ops' = [ ops EXCEPT ![o] = NoOp ]
    /\ UNCHANGED << profiles, authUsers, now, req, signup, dash, lib, sectionsTable, bucket, card, peer >>

LoadSections(o) == LoadSectionsWith(o, Outcomes)

\* loadProfile, lines 557-561: the store answers the sections query with
\* the rows it holds now; the response is on its way to the page.
SectionsQuery(o, Answers) ==
    /\ ops[o].pc = "sections"
    /\ \E outcome \in Answers :
       \E sectionsData \in selectSections(sectionsTable, ops[o].profileId) :
          ops' = [ ops EXCEPT ![o].pc = "sectionsResponse",
                              ![o].answered = (outcome = "ok"),
                              ![o].sectionsData = IF outcome = "ok" THEN sectionsData
                                                  ELSE << >> ]
    /\ UNCHANGED << profiles, authUsers, now, req, signup, dash, lib, sectionsTable, page, bucket, card, peer >>

\* loadProfile, lines 563-584, and the statements after it in the handler:
\* the response of the sections query arrives.
SectionsResponse(o) ==
    /\ ops[o].pc = "sectionsResponse"
    /\ page' = settle(loadProfileSections(page, ops[o].sectionsData, ops[o].answered),
                      ops[o])
    /\ ops' = [ ops EXCEPT ![o] = NoOp ]
    /\ UNCHANGED << profiles, authUsers, now, req, signup, dash, lib, sectionsTable, bucket, card, peer >>

(***************************************************************************)
(* The dashboard's editor: addSection, saveSection, deleteSection          *)
(***************************************************************************)
\* addSection with the position of a list that starts at one.
addSection_CountFromOne(pg, type) ==
    IF pg.profile = NoRow
    THEN [ insert |-> FALSE, data |-> NoSection ]
    ELSE [ insert |-> TRUE,
           data |-> [ NoSection EXCEPT !.profile_id = pg.profile.id,
                                       !.title = defaultTitle(type),
                                       !.type = type,
                                       !.content = defaultContent(type),
                                       !.position = Len(pg.sections) + 1 ] ]

\* addSection, lines 701-716: whether an insert is issued, and its data.
addSection(pg, type) ==
    IF pg.profile = NoRow
    THEN [ insert |-> FALSE, data |-> NoSection ]
    ELSE [ insert |-> TRUE,
           data |-> [ NoSection EXCEPT !.profile_id = pg.profile.id,
                                       !.title = defaultTitle(type),
                                       !.type = type,
                                       !.content = defaultContent(type),
                                       !.position = Len(pg.sections) ] ]

\* Inserts issued and not yet answered.
PendingInserts == Cardinality({ o \in OpSlots : ops[o].pc = "insert" })

\* An entry of the add menu, lines 923-946, while fewer than cap inserts
\* were issued.
ClickAddSectionUpTo(o, type, cap) ==
    /\ Rendered /\ FreeOp(o)
    /\ sectionsTable.serial + PendingInserts < cap
    /\ LET call == addSection(page, type)
       IN  ops' = IF call.insert
                  THEN [ ops EXCEPT ![o] = [ NoOp EXCEPT !.kind = "addSection",
                                                          !.pc = "insert",
                                                          !.data = call.data ] ]
                  ELSE ops
    /\ UNCHANGED << profiles, authUsers, now, req, signup, dash, lib, sectionsTable, page, bucket, card, peer >>

\* The same with the cap of the specifications that keep few sections.
ClickAddSection(o, type) == ClickAddSectionUpTo(o, type, MaxSections)

\* addSection, lines 718-725: the insert has answered.
AddSectionInsert(o) ==
    /\ ops[o].pc = "insert"
    /\ \E outcome \in Outcomes :
          IF outcome = "ok"
          THEN /\ sectionsTable' = insertSection(sectionsTable, ops[o].data)
               /\ ops' = [ ops EXCEPT ![o] = StartLoad([ NoOp EXCEPT !.kind = "loadProfile" ]) ]
          ELSE /\ sectionsTable' = sectionsTable
               /\ ops' = [ ops EXCEPT ![o] = NoOp ]
    /\ UNCHANGED << profiles, authUsers, now, req, signup, dash, lib, page, bucket, card, peer >>

\* saveSection that sends the visible flag of the section as it was loaded.
saveSection_LoadedVisible(pg, id, at) ==
    IF ~HasDraft(pg.sectionEdits, id)
    THEN [ update |-> FALSE, page |-> pg, patch |-> NoSection ]
    ELSE LET edits == pg.sectionEdits[id]
         IN  [ update |-> TRUE,
               page |-> [ pg EXCEPT !.savingSectionId = id ],
               patch |-> [ NoSection EXCEPT !.title = edits.title,
                                            !.content = edits.content,
                                            !.visible = \A sec \in Range(pg.sections) :
                                                            sec.id = id => sec.visible,
                                            !.updated_at = at ] ]

\* saveSection that writes the title alone.
saveSection_TitleOnly(pg, id, at) ==
    IF ~HasDraft(pg.sectionEdits, id)
    THEN [ update |-> FALSE, page |-> pg, patch |-> NoSection ]
    ELSE LET edits == pg.sectionEdits[id]
         IN  [ update |-> TRUE,
               page |-> [ pg EXCEPT !.savingSectionId = id ],
               patch |-> [ NoSection EXCEPT !.title = edits.title,
                                            !.content = ShownSection(id).content,
                                            !.visible = ShownSection(id).visible,
                                            !.updated_at = at ] ]

\* saveSection, lines 735-749: whether an update is issued, the page once the
\* section is marked, and the fields the update carries.
saveSection(pg, id, at) ==
    IF ~HasDraft(pg.sectionEdits, id)
    THEN [ update |-> FALSE, page |-> pg, patch |-> NoSection ]
    ELSE LET edits == pg.sectionEdits[id]
         IN  [ update |-> TRUE,
               page |-> [ pg EXCEPT !.savingSectionId = id ],
               patch |-> [ NoSection EXCEPT !.title = edits.title,
                                            !.content = edits.content,
                                            !.visible = edits.visible,
                                            !.updated_at = at ] ]

\* The Save button of a section, lines 1180-1186; it is disabled while the
\* page holds the section's id as the one being saved.
ClickSave(o, id) ==
    /\ Rendered /\ Shown(id) /\ FreeOp(o)
    /\ page.savingSectionId # id
    /\ LET call == saveSection(page, id, now + 1)
       IN  /\ page' = call.page
           /\ ops' = IF call.update
                     THEN [ ops EXCEPT ![o] = [ NoOp EXCEPT !.kind = "saveSection",
                                                             !.pc = "update",
                                                             !.id = id,
                                                             !.data = call.patch ] ]
                     ELSE ops
    /\ UNCHANGED << profiles, authUsers, now, req, signup, dash, lib, sectionsTable, bucket, card, peer >>

\* saveSection, lines 740-754: the update has answered.
SaveSectionUpdate(o) ==
    /\ ops[o].pc = "update"
    /\ \E outcome \in Outcomes :
          IF outcome = "ok"
          THEN /\ sectionsTable' = updateSection(sectionsTable, ops[o].id, ops[o].data)
               /\ ops' = [ ops EXCEPT ![o] = StartLoad(@) ]
               /\ page' = page
          ELSE /\ sectionsTable' = sectionsTable
               /\ ops' = [ ops EXCEPT ![o] = NoOp ]
               /\ page' = settle(page, ops[o])
    /\ UNCHANGED << profiles, authUsers, now, req, signup, dash, lib, bucket, card, peer >>

\* deleteSection that does not ask.
deleteSection_NoConfirm(id, confirmed) == [ delete |-> TRUE, id |-> id ]

\* deleteSection, lines 757-763: whether a delete is issued.
deleteSection(id, confirmed) == [ delete |-> confirmed, id |-> id ]

\* The trash button of a section, lines 975-980, and the answer to confirm().
ClickDelete(o, id, confirmed) ==
    /\ Rendered /\ Shown(id) /\ FreeOp(o)
    /\ LET call == deleteSection(id, confirmed)
       IN  ops' = IF call.delete
                  THEN [ ops EXCEPT ![o] = [ NoOp EXCEPT !.kind = "deleteSection",
                                                          !.pc = "delete",
                                                          !.id = call.id ] ]
                  ELSE ops
    /\ UNCHANGED << profiles, authUsers, now, req, signup, dash, lib, sectionsTable, page, bucket, card, peer >>

\* The delete that removes the section's neighbours with it.
deleteAnswered_All(t, id) == [ t EXCEPT !.rows = { s \in @ : s.id > id } ]

\* deleteSection, lines 760-763: the row the delete names is removed.
deleteAnswered(t, id) == deleteSectionRow(t, id)

\* deleteSection, lines 760-767: the delete has answered.
DeleteSectionDelete(o) ==
    /\ ops[o].pc = "delete"
    /\ \E outcome \in Outcomes :
          IF outcome = "ok"
          THEN /\ sectionsTable' = deleteAnswered(sectionsTable, ops[o].id)
               /\ ops' = [ ops EXCEPT ![o] = StartLoad([ NoOp EXCEPT !.kind = "loadProfile" ]) ]
          ELSE /\ sectionsTable' = sectionsTable
               /\ ops' = [ ops EXCEPT ![o] = NoOp ]
    /\ UNCHANGED << profiles, authUsers, now, req, signup, dash, lib, page, bucket, card, peer >>

(***************************************************************************)
(* The dashboard's editor: the editors of a listed section                 *)
(***************************************************************************)
\* sectionEdits[section.id]?.content.<key> || []
DraftArray(id, key) ==
    IF HasDraft(page.sectionEdits, id) THEN Get(page.sectionEdits[id].content, key) ELSE << >>

\* array.splice(idx, 1) on a copy
RemoveAt(array, idx) ==
    SubSeq(array, 1, idx - 1) \o SubSeq(array, idx + 1, Len(array))

\* An editor of the listed section id calls updateSectionEdit.
Edit(id, updater) ==
    /\ page' = [ page EXCEPT !.sectionEdits = updateSectionEdit(@, id, updater) ]
    /\ UNCHANGED << profiles, authUsers, now, req, signup, dash, lib, sectionsTable, ops, bucket, card, peer >>

Listed(id, type) == Rendered /\ Shown(id) /\ ShownSection(id).type = type

\* The title input, lines 989-999.
EditTitle(id, value) ==
    /\ Rendered /\ Shown(id)
    /\ Edit(id, [ field |-> "title", value |-> value ])

\* The checkbox, lines 1002-1013.
EditVisible(id, checked) ==
    /\ Rendered /\ Shown(id)
    /\ Edit(id, [ field |-> "visible", value |-> checked ])

\* The textarea of a text_list, lines 1026-1037.
EditItems(id, text) ==
    /\ Listed(id, "text_list")
    /\ Edit(id, [ field |-> "items", value |-> parseItems(text) ])

\* "Add link", lines 1047-1058.
AddLink(id) ==
    /\ Listed(id, "links")
    /\ Len(DraftArray(id, "links")) < MaxItems
    /\ Edit(id, [ field |-> "links", value |-> Append(DraftArray(id, "links"), NewLink) ])

\* The title input of a link, lines 1062-1075.
EditLinkTitle(id, idx, value) ==
    /\ Listed(id, "links")
    /\ idx \in DOMAIN DraftArray(id, "links")
    /\ Edit(id, [ field |-> "links",
                  value |-> [ DraftArray(id, "links") EXCEPT ![idx].title = value ] ])

\* The url input of a link, lines 1077-1090.
EditLinkUrl(id, idx, value) ==
    /\ Listed(id, "links")
    /\ idx \in DOMAIN DraftArray(id, "links")
    /\ Edit(id, [ field |-> "links",
                  value |-> [ DraftArray(id, "links") EXCEPT ![idx].url = value ] ])

\* "Remove" of a link, lines 1091-1103.
RemoveLink(id, idx) ==
    /\ Listed(id, "links")
    /\ idx \in DOMAIN DraftArray(id, "links")
    /\ Edit(id, [ field |-> "links", value |-> RemoveAt(DraftArray(id, "links"), idx) ])

\* "Add image", lines 1116-1127.
AddImage(id) ==
    /\ Listed(id, "gallery")
    /\ Len(DraftArray(id, "images")) < MaxItems
    /\ Edit(id, [ field |-> "images", value |-> Append(DraftArray(id, "images"), NewImage) ])

\* The url input of an image, lines 1131-1144.
EditImageUrl(id, idx, value) ==
    /\ Listed(id, "gallery")
    /\ idx \in DOMAIN DraftArray(id, "images")
    /\ Edit(id, [ field |-> "images",
                  value |-> [ DraftArray(id, "images") EXCEPT ![idx].url = value ] ])

\* The caption input of an image, lines 1146-1159.
EditImageCaption(id, idx, value) ==
    /\ Listed(id, "gallery")
    /\ idx \in DOMAIN DraftArray(id, "images")
    /\ Edit(id, [ field |-> "images",
                  value |-> [ DraftArray(id, "images") EXCEPT ![idx].caption = value ] ])

\* "Remove" of an image, lines 1160-1172.
RemoveImage(id, idx) ==
    /\ Listed(id, "gallery")
    /\ idx \in DOMAIN DraftArray(id, "images")
    /\ Edit(id, [ field |-> "images", value |-> RemoveAt(DraftArray(id, "images"), idx) ])

(***************************************************************************)
(* The dashboard's editor: uploadAvatar and uploadBanner                   *)
(*                                                                         *)
(* A file is its name; a path and a URL are the sequences of the pieces    *)
(* they are concatenated from.  bucket holds the objects of the storage    *)
(* bucket 'Profiles', one per path.                                        *)
(***************************************************************************)
\* e.target.files[0] of a file input whose selection was cleared.
NoFile == [ name |-> Null, picked |-> FALSE ]

File(name) == [ name |-> name, picked |-> TRUE ]

\* file.name.split('.').pop(), lines 620 and 663
fileExt(name) ==
    LET dots == { i \in DOMAIN name : name[i] = "." }
    IN  IF dots = {}
        THEN name
        ELSE SubSeq(name, (CHOOSE i \in dots : \A j \in dots : j <= i) + 1, Len(name))

\* lines 621-622 and 664-665
filePath(folder, profileId, purpose, ext) ==
    << folder, "/", ToString(profileId), "-", purpose, "." >> \o ext

\* storage.from('Profiles').getPublicUrl(filePath).publicUrl
getPublicUrl(path) == << "Profiles", "/" >> \o path

\* storage.from('Profiles').upload(filePath, file, { upsert: true })
upload(objects, path, name) ==
    { obj \in objects : obj.path # path } \cup { [ path |-> path, name |-> name ] }

\* The messages of the errors a handler can catch.
StorageErrorMessage == "The resource could not be stored"
TypeErrorMessage == "Cannot read properties of undefined (reading 'name')"

\* alert(`Failed to upload avatar: ${errorMsg}`), lines 652 and 695
failedToUpload(purpose, errorMsg) == << "Failed to upload ", purpose, ": ", errorMsg >>

Purpose(kind) == IF kind = "uploadAvatar" THEN "avatar" ELSE "banner"

\* uploadAvatar, lines 615-630 and 649-655: whether an upload is issued, its
\* path, and the page when the handler reaches its first await or its end.
uploadAvatar(pg, file) ==
    IF pg.profile = NoRow
    THEN [ upload |-> FALSE, page |-> pg, path |-> Null ]
    ELSE IF ~file.picked
    THEN [ upload |-> FALSE,
           page |-> [ pg EXCEPT !.alert = failedToUpload("avatar", TypeErrorMessage),
                                !.uploadingAvatar = FALSE ],
           path |-> Null ]
    ELSE [ upload |-> TRUE,
           page |-> [ pg EXCEPT !.uploadingAvatar = TRUE ],
           path |-> filePath("avatars", pg.profile.id, "avatar", fileExt(file.name)) ]

\* uploadBanner, lines 658-673 and 692-698.
uploadBanner(pg, file) ==
    IF pg.profile = NoRow
    THEN [ upload |-> FALSE, page |-> pg, path |-> Null ]
    ELSE IF ~file.picked
    THEN [ upload |-> FALSE,
           page |-> [ pg EXCEPT !.alert = failedToUpload("banner", TypeErrorMessage),
                                !.uploadingBanner = FALSE ],
           path |-> Null ]
    ELSE [ upload |-> TRUE,
           page |-> [ pg EXCEPT !.uploadingBanner = TRUE ],
           path |-> filePath("banners", pg.profile.id, "banner", fileExt(file.name)) ]

\* setAvatarUrl(newUrl), setBannerUrl(newUrl): lines 642 and 685
setUrl(pg, kind, newUrl) ==
    IF kind = "uploadAvatar" THEN [ pg EXCEPT !.avatarUrl = newUrl ]
    ELSE [ pg EXCEPT !.bannerUrl = newUrl ]

\* The handler that shows the new URL before it looks at the answer.
uploadAnswered_ShowFirst(pg, op, uploadError) ==
    IF uploadError
    THEN [ update |-> FALSE,
           page |-> settle([ setUrl(pg, op.kind, getPublicUrl(op.path))
                               EXCEPT !.alert = failedToUpload(Purpose(op.kind), StorageErrorMessage) ], op) ]
    ELSE [ update |-> TRUE, page |-> setUrl(pg, op.kind, getPublicUrl(op.path)) ]

\* lines 632-642 and 649-655, 675-685 and 692-698: the upload has answered.
\* Whether the profile update is issued, and the page.
uploadAnswered(pg, op, uploadError) ==
    IF uploadError
    THEN [ update |-> FALSE,
           page |-> settle([ pg EXCEPT !.alert = failedToUpload(Purpose(op.kind), StorageErrorMessage) ], op) ]
    ELSE [ update |-> TRUE, page |-> setUrl(pg, op.kind, getPublicUrl(op.path)) ]

\* The update without its filter on the id.
updateUrlById_AllRows(rows, id, kind, newUrl, at) ==
    { IF kind = "uploadAvatar"
      THEN [ p EXCEPT !.avatar_url = newUrl, !.updated_at = at ]
      ELSE [ p EXCEPT !.banner_url = newUrl, !.updated_at = at ] : p \in rows }

\* .from('profiles').update({ avatar_url | banner_url, updated_at }).eq('id', id)
updateUrlById(rows, id, kind, newUrl, at) ==
    { IF p.id # id THEN p
      ELSE IF kind = "uploadAvatar"
      THEN [ p EXCEPT !.avatar_url = newUrl, !.updated_at = at ]
      ELSE [ p EXCEPT !.banner_url = newUrl, !.updated_at = at ] : p \in rows }

\* The file input of the profile picture, lines 821-827.
UploadAvatar(o, file) ==
    /\ Rendered /\ ~page.uploadingAvatar /\ FreeOp(o)
    /\ LET call == uploadAvatar(page, file)
       IN  /\ page' = call.page
           /\ ops' = IF call.upload
                     THEN [ ops EXCEPT ![o] = [ NoOp EXCEPT !.kind = "uploadAvatar",
                                                             !.pc = "upload",
                                                             !.profileId = page.profile.id,
                                                             !.path = call.path,
                                                             !.file = file.name ] ]
                     ELSE ops
    /\ UNCHANGED << profiles, authUsers, now, req, signup, dash, lib, sectionsTable, bucket, card, peer >>

\* The file input of the banner, lines 847-853.
UploadBanner(o, file) ==
    /\ Rendered /\ ~page.uploadingBanner /\ FreeOp(o)
    /\ LET call == uploadBanner(page, file)
       IN  /\ page' = call.page
           /\ ops' = IF call.upload
                     THEN [ ops EXCEPT ![o] = [ NoOp EXCEPT !.kind = "uploadBanner",
                                                             !.pc = "upload",
                                                             !.profileId = page.profile.id,
                                                             !.path = call.path,
                                                             !.file = file.name ] ]
                     ELSE ops
    /\ UNCHANGED << profiles, authUsers, now, req, signup, dash, lib, sectionsTable, bucket, card, peer >>

\* lines 628-642 and 671-685: the storage has answered.
UploadStore(o) ==
    /\ ops[o].pc = "upload"
    /\ \E outcome \in Outcomes :
          LET answer == uploadAnswered(page, ops[o], outcome = "error")
          IN  /\ page' = answer.page
              /\ bucket' = IF outcome = "ok"
                           THEN upload(bucket, ops[o].path, ops[o].file)
                           ELSE bucket
              /\ ops' = IF answer.update
                        THEN [ ops EXCEPT ![o].pc = "persist" ]
                        ELSE [ ops EXCEPT ![o] = NoOp ]
    /\ UNCHANGED << profiles, authUsers, now, req, signup, dash, lib, sectionsTable, card, peer >>

\* lines 646-648 and 689-691: the update of the profile has answered; its
\* result is not looked at, and loadProfile follows.
UploadPersist(o) ==
    /\ ops[o].pc = "persist"
    /\ \E outcome \in Outcomes :
          profiles' = IF outcome = "ok"
                      THEN updateUrlById(profiles, ops[o].profileId, ops[o].kind,
                                         getPublicUrl(ops[o].path), now + 1)
                      ELSE profiles
    /\ ops' = [ ops EXCEPT ![o] = StartLoad(@) ]
    /\ UNCHANGED << authUsers, now, req, signup, dash, lib, sectionsTable, page, bucket, card, peer >>

\* The URL input beside the file input of the profile picture, lines 828-835.
TypeAvatarUrl(value) ==
    /\ Rendered /\ ~page.uploadingAvatar
    /\ page' = [ page EXCEPT !.avatarUrl = value ]
    /\ UNCHANGED << profiles, authUsers, now, req, signup, dash, lib, sectionsTable, ops, bucket, card, peer >>

\* The URL input beside the file input of the banner, lines 854-861.
TypeBannerUrl(value) ==
    /\ Rendered /\ ~page.uploadingBanner
    /\ page' = [ page EXCEPT !.bannerUrl = value ]
    /\ UNCHANGED << profiles, authUsers, now, req, signup, dash, lib, sectionsTable, ops, bucket, card, peer >>

(***************************************************************************)
(* The public profile's renderer, ProfileCard                              *)
(*                                                                         *)
(* The component is given a profile and its sections in display order and  *)
(* keeps the id of the active section; the empty string of the code is the *)
(* id 0, which no section has.                                             *)
(***************************************************************************)
\* The component before it is mounted.
NoCard == [ mounted |-> FALSE, profile |-> NoRow, sections |-> << >>, activeSection |-> 0 ]

\* useState(sections[0]?.id || ''), line 252
initialActive(sections) ==
    IF sections = << >> THEN 0 ELSE sections[1].id

\* renderSection whose default is the text list.
renderSection_Default(section) ==
    IF section.type = "links" THEN [ component |-> "LinksSection", section |-> section ]
    ELSE IF section.type = "gallery" THEN [ component |-> "GallerySection", section |-> section ]
    ELSE [ component |-> "TextListSection", section |-> section ]

\* What is rendered in place of a section: null.
Nothing == [ component |-> "null", section |-> NoSection ]

\* renderSection, lines 254-265
renderSection(section) ==
    IF section.type = "text_list" THEN [ component |-> "TextListSection", section |-> section ]
    ELSE IF section.type = "links" THEN [ component |-> "LinksSection", section |-> section ]
    ELSE IF section.type = "gallery" THEN [ component |-> "GallerySection", section |-> section ]
    ELSE Nothing

\* sections.find((s) => s.id === activeSection), line 267; NoSection is undefined
activeContent(c) ==
    LET found == { i \in DOMAIN c.sections : c.sections[i].id = c.activeSection }
    IN  IF found = {} THEN NoSection
        ELSE c.sections[CHOOSE i \in found : \A j \in found : i <= j]

\* The section content of the page, lines 319-343.
SectionContent(c) ==
    IF Len(c.sections) > 0 /\ activeContent(c) # NoSection
    THEN renderSection(activeContent(c))
    ELSE Nothing

\* The component is mounted with its props, lines 251-252.
ProfileCard(profile, sections) ==
    /\ ~card.mounted
    /\ card' = [ mounted |-> TRUE, profile |-> profile, sections |-> sections,
                 activeSection |-> initialActive(sections) ]
    /\ UNCHANGED << profiles, authUsers, now, req, signup, dash, lib, sectionsTable, page, ops, bucket, peer >>

\* A tab of the navigation is clicked, lines 322-326.
SetActiveSection(i) ==
    /\ card.mounted /\ i \in DOMAIN card.sections
    /\ card' = [ card EXCEPT !.activeSection = card.sections[i].id ]
    /\ UNCHANGED << profiles, authUsers, now, req, signup, dash, lib, sectionsTable, page, ops, bucket, peer >>

(***************************************************************************)
(* The dashboard's editor in a second browser session of the same owner    *)
(*                                                                         *)
(* The second session runs the same component: its state is peer.page and  *)
(* its one handler in flight is peer.op.                                   *)
(***************************************************************************)
NoPeer == [ page |-> PageInit, op |-> NoOp ]

RenderedIn(pg) == ~pg.loading /\ pg.profile # NoRow

ShownIn(pg, id) == \E i \in DOMAIN pg.sections : pg.sections[i].id = id

\* useEffect, lines 497-499.
PeerMount ==
    /\ peer = NoPeer
    /\ peer' = [ peer EXCEPT !.op = StartLoad([ NoOp EXCEPT !.kind = "loadProfile" ]) ]
    /\ UNCHANGED << profiles, authUsers, now, req, signup, dash, lib, sectionsTable, page, ops, bucket, card >>

\* loadProfile, lines 502-507, for the owner's session.
PeerLoadGetUser ==
    /\ peer.op.pc = "getUser"
    /\ peer' = [ peer EXCEPT !.op.pc = "profile", !.op.user = IdA ]
    /\ UNCHANGED << profiles, authUsers, now, req, signup, dash, lib, sectionsTable, page, ops, bucket, card >>

\* loadProfile, lines 509-521 and 548-555.
PeerLoadProfileRow ==
    /\ peer.op.pc = "profile"
    /\ LET res == single(selectByUserId(peer.op.user))
       IN  /\ res.error # "PGRST116"
           /\ \E outcome \in Outcomes :
                 LET profileData == IF outcome = "ok" THEN res.data ELSE NoRow
                 IN  peer' = IF profileData # NoRow
                             THEN [ page |-> loadProfileRow(peer.page, profileData),
                                    op |-> [ peer.op EXCEPT !.pc = "sections",
                                                            !.profileId = profileData.id ] ]
                             ELSE [ page |-> settle(loadProfileRow(peer.page, profileData), peer.op),
                                    op |-> NoOp ]
    /\ UNCHANGED << profiles, authUsers, now, req, signup, dash, lib, sectionsTable, page, ops, bucket, card >>

\* loadProfile, lines 557-584, and the statements after it in the handler.
PeerLoadSections ==
    /\ peer.op.pc = "sections"
    /\ \E outcome \in Outcomes :
       \E sectionsData \in selectSections(sectionsTable, peer.op.profileId) :
          peer' = [ page |-> settle(loadProfileSections(peer.page, sectionsData, outcome = "ok"), peer.op),
                    op |-> NoOp ]
    /\ UNCHANGED << profiles, authUsers, now, req, signup, dash, lib, sectionsTable, page, ops, bucket, card >>

\* The title input, lines 989-999.
PeerEditTitle(id, value) ==
    /\ RenderedIn(peer.page) /\ ShownIn(peer.page, id)
    /\ peer' = [ peer EXCEPT !.page.sectionEdits =
                                 updateSectionEdit(@, id, [ field |-> "title", value |-> value ]) ]
    /\ UNCHANGED << profiles, authUsers, now, req, signup, dash, lib, sectionsTable, page, ops, bucket, card >>

\* The Save button of a section, lines 1180-1186.
PeerClickSave(id) ==
    /\ RenderedIn(peer.page) /\ ShownIn(peer.page, id) /\ peer.op = NoOp
    /\ peer.page.savingSectionId # id
    /\ LET call == saveSection(peer.page, id, now + 1)
       IN  peer' = [ page |-> call.page,
                     op |-> IF call.update
                            THEN [ NoOp EXCEPT !.kind = "saveSection", !.pc = "update",
                                               !.id = id, !.data = call.patch ]
                            ELSE peer.op ]
    /\ UNCHANGED << profiles, authUsers, now, req, signup, dash, lib, sectionsTable, page, ops, bucket, card >>

\* saveSection, lines 740-754: the update has answered.
PeerSaveSectionUpdate ==
    /\ peer.op.pc = "update"
    /\ \E outcome \in Outcomes :
          IF outcome = "ok"
          THEN /\ sectionsTable' = updateSection(sectionsTable, peer.op.id, peer.op.data)
               /\ peer' = [ peer EXCEPT !.op = StartLoad(@) ]
          ELSE /\ sectionsTable' = sectionsTable
               /\ peer' = [ page |-> settle(peer.page, peer.op), op |-> NoOp ]
    /\ UNCHANGED << profiles, authUsers, now, req, signup, dash, lib, page, ops, bucket, card >>

(***************************************************************************)
(* The system                                                              *)
(***************************************************************************)
\* Both identities have been issued; no profile exists yet.
InitRoute ==
    /\ profiles = {}
    /\ authUsers = Identities
    /\ now = 0
    /\ req = [ r \in Slots |-> IdleReq ]
    /\ signup = SignupInit
    /\ dash = DashInit
    /\ lib = LibInit
    /\ sectionsTable = EmptyTable
    /\ page = PageInit
    /\ ops = OpsInit
    /\ bucket = {}
    /\ card = NoCard
    /\ peer = NoPeer

NextRoute ==
    \/ \E r \in Slots : DirectPost(r)
    \/ \E r \in Slots : PostCheckUsername(r)
    \/ \E r \in Slots : PostCheckUser(r)
    \/ \E r \in Slots : PostRpc(r)
    \/ \E r \in Slots : PostInsert(r)
    \/ \E r \in Slots : Retire(r)

\* The route's POST handler under concurrent requests.
SpecRoute == InitRoute /\ [][NextRoute]_vars


(***************************************************************************)
(* Properties of the POST handler                                          *)
(***************************************************************************)
Posts == { r \in Slots : req[r].route = "POST" }

Is4xx(status) == status >= 400 /\ status <= 499

\* C3: a POST whose resolved identity owned a profile when the request arrived
\* makes no write to the profile store, creates nothing, and once answered has
\* a 4xx status.
C3_ExistingIdentityConflict ==
    \A r \in Posts :
        req[r].ownedOnArrival =>
            /\ req[r].writes = 0 /\ req[r].created = 0
            /\ req[r].pc \in {"check_username", "check_user", "done"}
            /\ req[r].pc = "done" => Is4xx(req[r].status)

\* A request of an identity that owns a profile was refused by the identity check.
C3_Witness ==
    \E r \in Posts :
        /\ req[r].ownedOnArrival /\ req[r].pc = "done"
        /\ req[r].status = 400 /\ req[r].error = "Profile already exists"
        /\ selectByUserId(req[r].currentUserId) # {}

\* C4: once the privileged call of a POST has returned an error or thrown, the
\* fallback insert is pending or was made exactly once, with the identity, the
\* lowercased username and the display name (supplied, else the username)
\* given to the privileged call.
C4_FallbackOnceSameFields ==
    \A r \in Posts :
        req[r].rpcFailed =>
            \/ req[r].pc = "insert" /\ req[r].insertCalls = 0
            \/ /\ req[r].pc = "done" /\ req[r].insertCalls = 1
               /\ req[r].insertArgs = req[r].rpcArgs
               /\ req[r].insertArgs.user_id = req[r].currentUserId
               /\ req[r].insertArgs.username = toLowerCase(req[r].username)
               /\ req[r].insertArgs.display_name =
                     IF req[r].display_name = Null THEN req[r].username
                     ELSE req[r].display_name

\* The privileged call failed for a body with an upper-case username and no
\* display name, and the fallback insert has been made.
C4_Witness ==
    \E r \in Posts :
        /\ req[r].rpcFailed /\ req[r].pc = "done" /\ req[r].insertCalls = 1
        /\ req[r].username = name_BOB_1 /\ req[r].display_name = Null
        /\ req[r].status = 201

\* Two POSTs of different identities for the same username that both went past
\* the pre-checks.
Raced(r1, r2) ==
    /\ r1 # r2
    /\ req[r1].rpcCalls > 0 /\ req[r2].rpcCalls > 0
    /\ toLowerCase(req[r1].username) = toLowerCase(req[r2].username)
    /\ req[r1].currentUserId # req[r2].currentUserId

\* C7: of two POSTs by different identities for the same username that both
\* passed the pre-checks, at most one creates a profile, and one that created
\* none is answered 500, not 400 "Username is already taken".
C7_RaceLoserGets500 ==
    \A r1, r2 \in Posts :
        Raced(r1, r2) =>
            /\ ~ (req[r1].created # 0 /\ req[r2].created # 0)
            /\ (req[r1].pc = "done" /\ req[r1].created = 0) =>
                   req[r1].status = 500 /\ req[r1].error # "Username is already taken"

\* Both raced; one got 201 and its row, the other the store's duplicate-key error.
C7_Witness ==
    \E r1, r2 \in Posts :
        /\ Raced(r1, r2)
        /\ req[r1].pc = "done" /\ req[r1].status = 201 /\ req[r1].created # 0
        /\ req[r2].pc = "done" /\ req[r2].status = 500 /\ req[r2].created = 0
        /\ req[r2].error = "duplicate key"

\* The row a request created, as the store holds it.
CreatedRow(r) == CHOOSE p \in profiles : p.id = req[r].created

\* C8: a POST answered 201 carries the created record: the body's username and
\* display name are those of the stored row.
C8_ResponseIsCreatedRecord ==
    \A r \in Posts :
        (req[r].pc = "done" /\ req[r].status = 201) =>
            /\ req[r].created # 0
            /\ req[r].body.username = CreatedRow(r).username
            /\ req[r].body.display_name = CreatedRow(r).display_name

\* C9: a POST with a username acts as the session's identity when there is a
\* session and as the body's user_id only when there is none; both creation
\* calls are given that identity; with neither the answer is 401 and no read or
\* write of the profile store was made.
ResolvedIdentity(r) == IF req[r].user # Null THEN req[r].user ELSE req[r].user_id

C9_IdentityResolution ==
    \A r \in Posts :
        req[r].username # Null =>
            /\ req[r].currentUserId = ResolvedIdentity(r)
            /\ req[r].rpcCalls > 0 => req[r].rpcArgs.user_id = ResolvedIdentity(r)
            /\ req[r].insertCalls > 0 => req[r].insertArgs.user_id = ResolvedIdentity(r)
            /\ req[r].created # 0 => CreatedRow(r).user_id = ResolvedIdentity(r)
            /\ ResolvedIdentity(r) = Null =>
                   /\ req[r].pc = "done" /\ req[r].status = 401
                   /\ req[r].reads = 0 /\ req[r].writes = 0
            /\ ResolvedIdentity(r) # Null => req[r].status # 401

\* A request with a session and another identity in its body created the
\* session's profile.
C9_Witness ==
    \E r \in Posts :
        /\ req[r].user = IdA /\ req[r].user_id = IdB
        /\ req[r].created # 0 /\ CreatedRow(r).user_id = IdA

\* A request with neither session nor user_id was answered 401.
C9_Witness401 ==
    \E r \in Posts :
        /\ req[r].username # Null /\ req[r].user = Null /\ req[r].user_id = Null
        /\ req[r].status = 401

Init ==
    /\ profiles = {}
    /\ authUsers = {}
    /\ now = 0
    /\ req = [ r \in Slots |-> IdleReq ]
    /\ signup = SignupInit
    /\ dash = DashInit
    /\ lib = LibInit
    /\ sectionsTable = EmptyTable
    /\ page = PageInit
    /\ ops = OpsInit
    /\ bucket = {}
    /\ card = NoCard
    /\ peer = NoPeer

NextSignup ==
    \/ SetUsername
    \/ HandleSignup
    \/ SignupLookup
    \/ SignupAuth
    \/ SignupRpc
    \/ \E r \in Slots : SignupFetch(r)
    \/ SignupFetchThrows
    \/ SignupAwait
    \/ SignupOpen
    \/ \E r \in Slots : PostCheckUsername(r)
    \/ \E r \in Slots : PostCheckUser(r)
    \/ \E r \in Slots : PostRpc(r)
    \/ \E r \in Slots : PostInsert(r)

\* The signup page and the route it falls back to.
SpecSignup == Init /\ [][NextSignup]_vars

\* C1: a submitted username shorter than 3 or longer than 20 characters, or
\* with a character outside [A-Za-z0-9_], leaves the handler at once with a
\* message and the loading flag cleared; it has made no backend call (lookup,
\* sign-up, privileged call) and sent no POST; a bad length gives the message
\* "Username must be 3-20 characters".
BadLength(u) == Len(u) < 3 \/ Len(u) > 20

BadCharacter(u) ==
    \E i \in DOMAIN u :
        u[i] \notin Range(LowerLetters) \cup Range(UpperLetters) \cup Digits \cup {"_"}

C1_InvalidUsernameRejected ==
    (signup.ran /\ (BadLength(signup.submitted) \/ BadCharacter(signup.submitted))) =>
        /\ signup.pc = "idle"
        /\ signup.error # "" /\ ~ signup.loading
        /\ signup.calls = 0 /\ signup.fetches = 0 /\ signup.user = Null
        /\ \A r \in Slots : req[r].caller # "signup"
        /\ BadLength(signup.submitted) =>
               signup.error = "Username must be 3-20 characters"

\* A username of 21 characters was submitted, after the same page had created
\* an account.
C1_Witness ==
    /\ signup.ran /\ Len(signup.submitted) = 21
    /\ signup.error = "Username must be 3-20 characters"
    /\ authUsers # {}

\* A username with a dash was submitted.
C1_WitnessCharacter ==
    /\ signup.ran /\ signup.submitted = name_dash
    /\ signup.error = "Username can only contain letters, numbers, and underscores"

(***************************************************************************)
(* Provisioning: every way a profile is created                            *)
(***************************************************************************)
\* POSTs sent to the route beside the pages' own.
ProvisionBodies ==
    { [ username |-> name_ab, display_name |-> Null, user_id |-> Null, user |-> IdA ],
      [ username |-> name_BOB_1, display_name |-> Null, user_id |-> IdB, user |-> Null ] }

\* What visitors type while other clients create profiles too.
ProvisionNames == { name_BOB_1, name_ab }

\* One other client of the route, sending one request at a time.
OtherClientPost(r) ==
    /\ FreeSlot(r)
    /\ \A r2 \in Slots : req[r2].caller # "direct"
    /\ DirectPostFrom(r, ProvisionBodies)

NextProvision ==
    \/ SetUsernameFrom(ProvisionNames)
    \/ HandleSignup
    \/ SignupLookup
    \/ SignupAuth
    \/ SignupRpc
    \/ \E r \in Slots : SignupFetch(r)
    \/ SignupFetchThrows
    \/ SignupAwait
    \/ SignupOpen
    \/ DashLoad
    \/ DashLookup
    \/ DashSections
    \/ \E r \in Slots : DashFetch(r)
    \/ DashAwait
    \/ \E r \in Slots : OtherClientPost(r)
    \/ \E r \in Slots : PostCheckUsername(r)
    \/ \E r \in Slots : PostCheckUser(r)
    \/ \E r \in Slots : PostRpc(r)
    \/ \E r \in Slots : PostInsert(r)
    \/ \E r \in Slots : Retire(r)

\* The signup page, the dashboard and other clients of the route, together.
SpecProvision == Init /\ [][NextProvision]_vars

\* C2: no two stored profiles have usernames equal ignoring case; a POST that
\* resolved an identity and whose username, ignoring case, was stored when it
\* arrived makes no write and is answered 400 "Username is already taken"; a
\* valid signup whose username was stored when it was submitted ends with
\* "Username is already taken" after the lookup, with no account created.
C2_CaseInsensitiveUnique ==
    /\ \A p1, p2 \in profiles :
           p1 # p2 => toLowerCase(p1.username) # toLowerCase(p2.username)
    /\ \A r \in Posts :
           (req[r].takenOnArrival /\ ResolvedIdentity(r) # Null) =>
               /\ req[r].writes = 0 /\ req[r].created = 0
               /\ req[r].pc \in {"check_username", "done"}
               /\ req[r].pc = "done" =>
                      req[r].status = 400 /\ req[r].error = "Username is already taken"
    /\ signup.takenOnSubmit =>
           /\ signup.pc \in {"lookup", "idle"}
           /\ signup.user = Null /\ signup.fetches = 0
           /\ signup.pc = "idle" =>
                  signup.error = "Username is already taken" /\ signup.calls = 1

\* bob_1 is stored and a POST for BOB_1 was refused as taken.
C2_Witness ==
    \E r \in Posts :
        /\ req[r].username = name_BOB_1 /\ req[r].takenOnArrival
        /\ req[r].pc = "done" /\ req[r].error = "Username is already taken"
        /\ \E p \in profiles : p.username = name_bob_1

\* bob_1 is stored and a signup for it was refused as taken.
C2_WitnessSignup ==
    /\ signup.takenOnSubmit /\ signup.pc = "idle"
    /\ signup.error = "Username is already taken"
    /\ signup.submitted = name_bob_1

\* C5: every identity owns at most one profile, and an identity whose POST was
\* answered 201, or whose signup created its profile, owns exactly one.
C5_OneProfilePerIdentity ==
    /\ \A id \in Identities : Cardinality(selectByUserId(id)) <= 1
    /\ \A r \in Posts :
           (req[r].pc = "done" /\ req[r].status = 201) =>
               Cardinality(selectByUserId(ResolvedIdentity(r))) = 1
    /\ signup.profileCreated => Cardinality(selectByUserId(signup.user)) = 1

\* The dashboard's POST was answered 201 for an identity the signup page had
\* left without a profile.
C5_Witness ==
    \E r \in Posts :
        /\ req[r].caller = "dashboard" /\ req[r].pc = "done" /\ req[r].status = 201
        /\ Cardinality(selectByUserId(ResolvedIdentity(r))) = 1
        /\ Cardinality(profiles) = 2

\* C6: every stored username is lowercase, 3 to 20 characters long and made of
\* letters, digits and underscore.
C6_StoredUsernamesValid ==
    \A p \in profiles :
        /\ ~ BadLength(p.username) /\ ~ BadCharacter(p.username)
        /\ toLowerCase(p.username) = p.username

(***************************************************************************)
(* GET and PATCH beside a POST                                             *)
(***************************************************************************)
NextProfile ==
    \/ \E r \in Slots : DirectPostFrom(r, BackgroundBodies)
    \/ \E r \in Slots : PostCheckUsername(r)
    \/ \E r \in Slots : PostCheckUser(r)
    \/ \E r \in Slots : PostRpc(r)
    \/ \E r \in Slots : PostInsert(r)
    \/ \E r \in Slots : DirectGet(r)
    \/ \E r \in Slots : GetLookup(r)
    \/ \E r \in Slots : DirectPatch(r)
    \/ \E r \in Slots : PatchUpdate(r)
    \/ \E r \in Slots : Retire(r)

SpecProfile == InitRoute /\ [][NextProfile]_vars

\* C10: a GET or PATCH without a session is answered 401 and makes no read or
\* write of the profile store; with a session it is answered 200 with the row
\* of the session's identity (for PATCH, with the body's fields applied), or
\* 500 with the store's error; an identity that owned a profile when the
\* request arrived gets 200.
PatchApplied(row, patch) ==
    /\ patch.display_name # Null => row.display_name = patch.display_name
    /\ patch.bio # Null => row.bio = patch.bio
    /\ patch.avatar_url # Null => row.avatar_url = patch.avatar_url
    /\ patch.banner_url # Null => row.banner_url = patch.banner_url
    /\ patch.theme # Null => row.theme = patch.theme

C10_GetPatchResponses ==
    \A r \in Slots :
        req[r].route \in {"GET", "PATCH"} =>
            /\ req[r].user = Null =>
                   /\ req[r].pc = "done" /\ req[r].status = 401
                   /\ req[r].reads = 0 /\ req[r].writes = 0
            /\ (req[r].user # Null /\ req[r].pc = "done") =>
                   /\ req[r].status \in {200, 500}
                   /\ req[r].status = 200 =>
                          /\ req[r].error = ""
                          /\ req[r].body.id # 0 /\ req[r].body.user_id = req[r].user
                          /\ \E p \in profiles :
                                 /\ p.id = req[r].body.id /\ p.user_id = req[r].user
                                 /\ p.username = req[r].body.username
                          /\ req[r].route = "PATCH" => PatchApplied(req[r].body, req[r].patch)
                   /\ req[r].status = 500 => req[r].error # "" /\ req[r].body = NoRow
                   /\ req[r].ownedOnArrival => req[r].status = 200

\* One PATCH with a session changed the display name and got the row; another
\* request without a session got 401.
C10_Witness ==
    \E r1, r2 \in Slots :
        /\ req[r1].route = "PATCH" /\ req[r1].status = 200
        /\ req[r1].body.display_name = text_New /\ req[r1].body.username = name_bob_1
        /\ req[r2].route = "GET" /\ req[r2].status = 401

\* A GET by an identity without a profile got 500.
C10_Witness500 ==
    \E r \in Slots :
        req[r].route = "GET" /\ req[r].user = IdB /\ req[r].status = 500


(***************************************************************************)
(* The accessor under every environment                                    *)
(***************************************************************************)
InitClient ==
    /\ profiles = {}
    /\ authUsers = {}
    /\ now = 0
    /\ req = [ r \in Slots |-> IdleReq ]
    /\ signup = SignupInit
    /\ dash = DashInit
    /\ \E url \in EnvUrls, key \in EnvKeys : lib = LibStart(url, key)
    /\ sectionsTable = EmptyTable
    /\ page = PageInit
    /\ ops = OpsInit
    /\ bucket = {}
    /\ card = NoCard
    /\ peer = NoPeer

NextClient ==
    \E c \in Callers : GetSupabaseClient(c)

SpecClient == InitClient /\ [][NextClient]_vars

MissingEnv ==
    Falsy(lib.NEXT_PUBLIC_SUPABASE_URL) \/ Falsy(lib.NEXT_PUBLIC_SUPABASE_ANON_KEY)

\* C11: over any sequence of calls of the accessor the handle is constructed
\* at most once and every call that returns gives that one handle, made from
\* the two configuration values; while the service URL or the public key is
\* missing every call throws the configuration error, nothing is constructed
\* and nothing is memoized.
C11_SharedHandle ==
    /\ lib.constructions <= 1
    /\ Cardinality(lib.returned) <= 1
    /\ \A c \in Callers :
           (lib.got[c].called /\ lib.got[c].error = "") =>
               /\ lib.got[c].value = lib.supabaseClient
               /\ lib.got[c].value # NoClient
               /\ lib.got[c].value.url = lib.NEXT_PUBLIC_SUPABASE_URL
               /\ lib.got[c].value.key = lib.NEXT_PUBLIC_SUPABASE_ANON_KEY
               /\ lib.constructions = 1
    /\ MissingEnv =>
           /\ lib.constructions = 0
           /\ lib.supabaseClient = NoClient
           /\ lib.returned = {}
           /\ \A c \in Callers :
                  lib.got[c].called =>
                      lib.got[c].error = MsgMissingEnv /\ lib.got[c].value = NoClient
    /\ ~MissingEnv => \A c \in Callers : lib.got[c].error = ""

\* Both pages called the accessor, as often as the bound lets them, and hold the one handle.
C11_Witness ==
    /\ lib.calls = MaxCalls
    /\ \A c \in Callers : lib.got[c].called /\ lib.got[c].value.id = 1
    /\ lib.constructions = 1

\* The key is missing and a call threw.
C11_WitnessMissing ==
    /\ ~Falsy(lib.NEXT_PUBLIC_SUPABASE_URL)
    /\ Falsy(lib.NEXT_PUBLIC_SUPABASE_ANON_KEY)
    /\ \E c \in Callers : lib.got[c].error = MsgMissingEnv
    /\ lib.calls >= 2


(***************************************************************************)
(* The dashboard's editor, for an owner who has a profile                  *)
(***************************************************************************)
OwnerRow ==
    [ NoRow EXCEPT !.id = 1, !.user_id = IdA, !.username = name_bob_1,
                   !.display_name = text_Bob ]

OtherRow ==
    [ NoRow EXCEPT !.id = 2, !.user_id = IdB, !.username = name_ab,
                   !.display_name = name_ab ]

SectionIds == 1..MaxSections
ItemIndexes == 1..MaxItems

text_two_lines == << "a", NewLine, " ", NewLine, "b", " " >>
ItemTexts == { << >>, text_two_lines }
TitleInputs == { "Renamed" }
LinkInputs == { "My Link" }
UrlInputs == { "https://selfbook.example" }
CaptionInputs == { "Caption" }

InitEditor ==
    /\ profiles = { OwnerRow, OtherRow }
    /\ authUsers = Identities
    /\ now = 0
    /\ req = [ r \in Slots |-> IdleReq ]
    /\ signup = SignupInit
    /\ dash = DashInit
    /\ lib = LibInit
    /\ sectionsTable = EmptyTable
    /\ page = PageInit
    /\ ops = OpsInit
    /\ bucket = {}
    /\ card = NoCard
    /\ peer = NoPeer

\* A row written by another client of the service: its payload has no array.
ImportedRow(type) ==
    [ NoSection EXCEPT !.id = 1, !.profile_id = OwnerRow.id, !.title = "Imported",
                       !.type = type ]

ImportedRows == { ImportedRow(type) : type \in SectionTypes }

\* The owner has no section yet, or the one that was imported.
InitContent ==
    /\ profiles = { OwnerRow, OtherRow }
    /\ authUsers = Identities
    /\ now = 0
    /\ req = [ r \in Slots |-> IdleReq ]
    /\ signup = SignupInit
    /\ dash = DashInit
    /\ lib = LibInit
    /\ sectionsTable \in { EmptyTable } \cup
                          { [ rows |-> { row }, serial |-> 1 ] : row \in ImportedRows }
    /\ page = PageInit
    /\ ops = OpsInit
    /\ bucket = {}
    /\ card = NoCard
    /\ peer = NoPeer

\* An owner who keeps one section at a time and waits for each handler.
Quiet == \A o \in OpSlots : ops[o] = NoOp

NextContent ==
    \/ \E o \in OpSlots : Quiet /\ Mount(o)
    \/ \E o \in OpSlots : Quiet /\ ClickReset(o)
    \/ \E o \in OpSlots : LoadGetUserFrom(o, { IdA })
    \/ \E o \in OpSlots : LoadProfileRow(o)
    \/ \E o \in OpSlots : LoadSections(o)
    \/ \E o \in OpSlots, type \in SectionTypes :
          Quiet /\ sectionsTable.serial = 0 /\ ClickAddSection(o, type)
    \/ \E o \in OpSlots : AddSectionInsert(o)
    \/ \E o \in OpSlots, id \in SectionIds : Quiet /\ ClickSave(o, id)
    \/ \E o \in OpSlots : SaveSectionUpdate(o)
    \/ \E o \in OpSlots, id \in SectionIds : Quiet /\ ClickDelete(o, id, TRUE)
    \/ \E o \in OpSlots : DeleteSectionDelete(o)
    \/ \E id \in SectionIds, text \in ItemTexts : Quiet /\ EditItems(id, text)
    \/ \E id \in SectionIds : Quiet /\ AddLink(id)
    \/ \E id \in SectionIds, idx \in ItemIndexes, value \in LinkInputs : Quiet /\ EditLinkTitle(id, idx, value)
    \/ \E id \in SectionIds, idx \in ItemIndexes, value \in UrlInputs : Quiet /\ EditLinkUrl(id, idx, value)
    \/ \E id \in SectionIds, idx \in ItemIndexes : Quiet /\ RemoveLink(id, idx)
    \/ \E id \in SectionIds : Quiet /\ AddImage(id)
    \/ \E id \in SectionIds, idx \in ItemIndexes, value \in UrlInputs : Quiet /\ EditImageUrl(id, idx, value)
    \/ \E id \in SectionIds, idx \in ItemIndexes, value \in CaptionInputs : Quiet /\ EditImageCaption(id, idx, value)
    \/ \E id \in SectionIds, idx \in ItemIndexes : Quiet /\ RemoveImage(id, idx)

\* The content editors of the three section types.
SpecContent == InitContent /\ [][NextContent]_vars

NextSections ==
    \/ \E o \in OpSlots : Quiet /\ Mount(o)
    \/ \E o \in OpSlots : Quiet /\ ClickReset(o)
    \/ \E o \in OpSlots : LoadGetUserFrom(o, { IdA })
    \/ \E o \in OpSlots : LoadProfileRow(o)
    \/ \E o \in OpSlots : LoadSections(o)
    \/ \E o \in OpSlots : Quiet /\ ClickAddSection(o, "links")
    \/ \E o \in OpSlots : AddSectionInsert(o)
    \/ \E o \in OpSlots, id \in SectionIds : ClickSave(o, id)
    \/ \E o \in OpSlots : SaveSectionUpdate(o)
    \/ \E o \in OpSlots, id \in SectionIds, confirmed \in BOOLEAN : Quiet /\ ClickDelete(o, id, confirmed)
    \/ \E o \in OpSlots : DeleteSectionDelete(o)
    \/ \E value \in TitleInputs : EditTitle(1, value)
    \/ \E id \in SectionIds \ { 1 }, checked \in BOOLEAN : EditVisible(id, checked)

\* Sections added, saved and deleted by handlers that overlap.
SpecSections == InitEditor /\ [][NextSections]_vars

\* The persisted row of a section, NoSection when there is none.
Persisted(id) ==
    IF \E s \in sectionsTable.rows : s.id = id
    THEN CHOOSE s \in sectionsTable.rows : s.id = id
    ELSE NoSection

\* An editor of section id has acted in this step.
EditStep(id) ==
    \/ \E value \in TitleInputs : EditTitle(id, value)
    \/ \E checked \in BOOLEAN : EditVisible(id, checked)

\* C12: a call of updateSectionEdit for a section changes the draft of that
\* section and nothing else: no handler is started and no backend call is
\* made, the sections table, the profiles and the bucket keep their rows, the
\* loaded section list and the rest of the page keep their values, and the
\* draft of every other section is the one it was.
C12_UpdateDraftFrame ==
    [][ \A id \in SectionIds :
          EditStep(id) =>
              /\ sectionsTable' = sectionsTable /\ profiles' = profiles
              /\ bucket' = bucket /\ ops' = ops /\ req' = req
              /\ page'.sections = page.sections
              /\ [ page' EXCEPT !.sectionEdits = << >> ] = [ page EXCEPT !.sectionEdits = << >> ]
              /\ DOMAIN page'.sectionEdits = (DOMAIN page.sectionEdits) \cup { id }
              /\ \A other \in (DOMAIN page.sectionEdits) \ { id } :
                     page'.sectionEdits[other] = page.sectionEdits[other]
      ]_vars

\* Two sections are listed; the draft of the first was renamed and that of
\* the second hidden, while both persisted rows are as they were inserted.
C12_Witness ==
    /\ HasDraft(page.sectionEdits, 1) /\ HasDraft(page.sectionEdits, 2)
    /\ page.sectionEdits[1].title = "Renamed" /\ page.sectionEdits[1].visible
    /\ page.sectionEdits[2].title = "New links" /\ ~page.sectionEdits[2].visible
    /\ Persisted(1).title = "New links" /\ Persisted(2).visible
    /\ Persisted(1).updated_at = 0 /\ Persisted(2).updated_at = 0
    /\ Quiet


\* The saves of section id in flight: from the click to the last statement
\* of saveSection, its reload included.
SavesOf(id) == { o \in OpSlots : ops[o].kind = "saveSection" /\ ops[o].id = id }

\* C13: in one dashboard session a section is marked as being saved, its Save
\* button disabled, exactly while a save of it is in flight, whatever saves
\* of other sections overlap with it; so no two saves of one section are in
\* flight together.
C13_SavingFlag ==
    \A id \in SectionIds :
        /\ SavesOf(id) # {} => page.savingSectionId = id
        /\ SavesOf(id) = {} => page.savingSectionId # id
        /\ Cardinality(SavesOf(id)) <= 1

\* The conclusion of C13 alone.
C13_NoDoubleSave ==
    \A id \in SectionIds : Cardinality(SavesOf(id)) <= 1


\* The rows of the table other than that of section id.
OtherRows(t, id) == { s \in t.rows : s.id # id }

\* The fields a save carries are those of the draft.
CarriesDraft(patch, draft) ==
    /\ patch.title = draft.title
    /\ patch.content = draft.content
    /\ patch.visible = draft.visible

\* C14: saveSection(id) sends the title, content and visible flag of the draft
\* of id, with a timestamp, and the update writes just these to the row of id
\* and leaves every other row as it is; when the update fails the table and
\* all drafts stay as they are and no reload follows; and for an id without
\* a draft saveSection issues no update and marks nothing.
C14_SaveWritesDraft ==
    /\ [] (\A id \in SectionIds :
              ~HasDraft(page.sectionEdits, id) =>
                  /\ ~saveSection(page, id, now + 1).update
                  /\ saveSection(page, id, now + 1).page = page)
    /\ [][ \A o \in OpSlots :
            /\ (\E id \in SectionIds : ClickSave(o, id)) =>
                   /\ sectionsTable' = sectionsTable
                   /\ page'.sectionEdits = page.sectionEdits
                   /\ ops'[o].pc = "update"
                   /\ HasDraft(page.sectionEdits, ops'[o].id)
                   /\ CarriesDraft(ops'[o].data, page.sectionEdits[ops'[o].id])
                   /\ ops'[o].data.updated_at = now + 1
            /\ (SaveSectionUpdate(o) /\ ops'[o] # NoOp) =>
                   /\ ops'[o].pc = "getUser"
                   /\ OtherRows(sectionsTable', ops[o].id) = OtherRows(sectionsTable, ops[o].id)
                   /\ \A s \in sectionsTable.rows :
                          s.id = ops[o].id =>
                              [ s EXCEPT !.title = ops[o].data.title,
                                         !.content = ops[o].data.content,
                                         !.visible = ops[o].data.visible,
                                         !.updated_at = ops[o].data.updated_at ]
                                  \in sectionsTable'.rows
                   /\ Cardinality(sectionsTable'.rows) = Cardinality(sectionsTable.rows)
            /\ (SaveSectionUpdate(o) /\ ops'[o] = NoOp) =>
                   /\ sectionsTable' = sectionsTable
                   /\ page'.sectionEdits = page.sectionEdits
                   /\ page'.sections = page.sections
                   /\ \A o2 \in OpSlots \ { o } : ops'[o2] = ops[o2]
      ]_vars

\* The renamed draft of section 1 was saved and reloaded; the row of section
\* 2, whose draft was hidden, was not written.
C14_Witness ==
    /\ Persisted(1).title = "Renamed" /\ Persisted(1).updated_at = now + 1
    /\ Persisted(2).id = 2 /\ Persisted(2).updated_at = 0 /\ Persisted(2).visible
    /\ HasDraft(page.sectionEdits, 2) /\ ~page.sectionEdits[2].visible
    /\ page.sections # << >> /\ page.sections[1].title = "Renamed"
    /\ Quiet


\* C15: a confirmed deleteSection(id) whose delete succeeds removes the row of
\* id and leaves every other row, with its position, title, type and content,
\* as it is; a delete that fails removes nothing; and when the confirmation
\* is declined no backend call is made and nothing changes.
C15_DeleteFrame ==
    [][ \A o \in OpSlots :
          /\ (\E id \in SectionIds : ClickDelete(o, id, FALSE)) => UNCHANGED vars
          /\ \A id \in SectionIds :
                 (ClickDelete(o, id, TRUE) /\ ~ClickDelete(o, id, FALSE)) =>
                     /\ sectionsTable' = sectionsTable /\ page' = page
                     /\ ops'[o].pc = "delete" /\ ops'[o].id = id
          /\ (DeleteSectionDelete(o) /\ ops'[o] # NoOp) =>
                 /\ sectionsTable'.rows = OtherRows(sectionsTable, ops[o].id)
                 /\ page' = page
          /\ (DeleteSectionDelete(o) /\ ops'[o] = NoOp) =>
                 /\ sectionsTable' = sectionsTable /\ page' = page
      ]_vars

\* Section 2 was deleted and the page reloaded; section 1 is as it was
\* inserted.
C15_Witness ==
    /\ sectionsTable.serial = 2
    /\ Persisted(2) = NoSection
    /\ Persisted(1).id = 1 /\ Persisted(1).title = "New links"
    /\ Persisted(1).content = defaultContent("links") /\ Persisted(1).updated_at = 0
    /\ page.sections = << Persisted(1) >>
    /\ Quiet


(***************************************************************************)
(* Sections of every type, added and deleted by handlers that overlap      *)
(***************************************************************************)
NextLifecycle ==
    \/ \E o \in OpSlots : Mount(o)
    \/ \E o \in OpSlots : ClickReset(o)
    \/ \E o \in OpSlots : LoadGetUserFrom(o, { IdA })
    \/ \E o \in OpSlots : LoadProfileRow(o)
    \/ \E o \in OpSlots : LoadSections(o)
    \/ \E o \in OpSlots, type \in SectionTypes : ClickAddSection(o, type)
    \/ \E o \in OpSlots : AddSectionInsert(o)
    \/ \E o \in OpSlots, id \in SectionIds, confirmed \in BOOLEAN : ClickDelete(o, id, confirmed)
    \/ \E o \in OpSlots : DeleteSectionDelete(o)

SpecLifecycle == InitEditor /\ [][NextLifecycle]_vars

\* The default payload of a type: two items, one link, no image.
DefaultPayload(type, content) ==
    /\ DOMAIN content = { ContentKey(type) }
    /\ type = "text_list" => content.items = << text_First_item, text_Second_item >>
    /\ type = "links" => content.links = << MyLink >>
    /\ type = "gallery" => content.images = << >>

\* C16: addSection(type) issues one insert for the loaded profile, with the
\* requested type, the default payload of that type and, as position, the
\* length of the section list the page holds when it is called; the insert
\* adds exactly that one row, under a new identifier; with no loaded profile
\* addSection issues nothing.
C16_AddSection ==
    /\ [] (page.profile = NoRow =>
              \A type \in SectionTypes : ~addSection(page, type).insert)
    /\ [][ \A o \in OpSlots :
            /\ \A type \in SectionTypes :
                   ClickAddSection(o, type) =>
                       /\ sectionsTable' = sectionsTable /\ page' = page
                       /\ ops'[o].pc = "insert"
                       /\ ops'[o].data.profile_id = page.profile.id
                       /\ ops'[o].data.type = type
                       /\ DefaultPayload(type, ops'[o].data.content)
                       /\ ops'[o].data.position = Len(page.sections)
                       /\ \A o2 \in OpSlots \ { o } : ops'[o2] = ops[o2]
            /\ (AddSectionInsert(o) /\ ops'[o] # NoOp) =>
                   \E s \in sectionsTable'.rows :
                       /\ sectionsTable'.rows \ { s } = sectionsTable.rows
                       /\ \A old \in sectionsTable.rows : old.id # s.id
                       /\ s.profile_id = ops[o].data.profile_id
                       /\ s.type = ops[o].data.type
                       /\ s.content = ops[o].data.content
                       /\ s.position = ops[o].data.position
            /\ (AddSectionInsert(o) /\ ops'[o] = NoOp) => sectionsTable' = sectionsTable
      ]_vars

\* A gallery was added while one section was listed: it has position 1, no
\* image and the owner's profile.
C16_Witness ==
    \E s \in sectionsTable.rows :
        /\ s.type = "gallery" /\ s.position = 1 /\ s.profile_id = OwnerRow.id
        /\ s.content = [ images |-> << >> ]
        /\ \E first \in sectionsTable.rows : first.position = 0 /\ first.type = "text_list"


\* The shape that a type implies: one array under the type's key, of strings
\* for a text_list, of {title, url} for links, of {url, caption} for a gallery.
ShapeOK(type, content) ==
    /\ DOMAIN content = { ContentKey(type) }
    /\ type = "text_list" => content.items \in Seq(Seq(STRING))
    /\ type = "links" => content.links \in Seq([ title : STRING, url : STRING ])
    /\ type = "gallery" => content.images \in Seq([ url : STRING, caption : STRING ])

\* C17: whatever sections are added, edited through the editors of their
\* type, saved and reloaded, the payload of every row that the dashboard
\* inserted or wrote and of every draft has the shape its section's type
\* implies; and the draft that a reload seeds from a row whose array is
\* missing holds the empty sequence under the type's key.
C17_ContentShape ==
    /\ \A s \in sectionsTable.rows \ ImportedRows : ShapeOK(s.type, s.content)
    /\ \A id \in DOMAIN page.sectionEdits :
           /\ Shown(id)
           /\ ShapeOK(ShownSection(id).type, page.sectionEdits[id].content)
    /\ \A sectionsData \in selectSections(sectionsTable, OwnerRow.id) :
       \A i \in DOMAIN sectionsData :
           Get(sectionsData[i].content, ContentKey(sectionsData[i].type)) = Null =>
               seedEdits(sectionsData)[sectionsData[i].id].content =
                   Put(EmptyContent, ContentKey(sectionsData[i].type), << >>)

\* An imported gallery without an array was loaded, an image added to its
\* draft and captioned, and the draft saved: the row now has the shape.
C17_Witness ==
    /\ Persisted(1).title = "Imported" /\ Persisted(1).type = "gallery"
    /\ Persisted(1).content = [ images |-> << [ url |-> NewImage.url, caption |-> "Caption" ] >> ]
    /\ HasDraft(page.sectionEdits, 1)
    /\ page.sectionEdits[1].content = Persisted(1).content
    /\ Quiet

\* The imported links section is listed as stored and its draft is empty.
C17_WitnessSeeded ==
    /\ ImportedRow("links") \in sectionsTable.rows
    /\ page.sections = << ImportedRow("links") >>
    /\ page.sectionEdits[1].content = [ links |-> << >> ]


(***************************************************************************)
(* The text_list editor on every short text                                *)
(***************************************************************************)
\* Length of the texts typed into the textarea.
MaxText == 3

TextAlphabet == { "a", " ", NewLine }

TextsUpTo(n) == UNION { [ 1..k -> TextAlphabet ] : k \in 0..n }

\* What can be typed into the textarea.
Texts == TextsUpTo(MaxText)

\* The item lists a stored text_list can hold: up to two short entries.
ItemLists == UNION { [ 1..k -> TextsUpTo(MaxText - 1) ] : k \in 0..2 }

\* The owner has one text_list, written by some client of the service.
InitTextList ==
    /\ profiles = { OwnerRow, OtherRow }
    /\ authUsers = Identities
    /\ now = 0
    /\ req = [ r \in Slots |-> IdleReq ]
    /\ signup = SignupInit
    /\ dash = DashInit
    /\ lib = LibInit
    /\ \E items \in ItemLists :
          sectionsTable =
              [ rows |-> { [ ImportedRow("text_list") EXCEPT
                               !.content = Put(EmptyContent, "items", items) ] },
                serial |-> 1 ]
    /\ page = PageInit
    /\ ops = OpsInit
    /\ bucket = {}
    /\ card = NoCard
    /\ peer = NoPeer

NextTextList ==
    \/ \E o \in OpSlots : Quiet /\ Mount(o)
    \/ \E o \in OpSlots : Quiet /\ ClickReset(o)
    \/ \E o \in OpSlots : LoadGetUserFrom(o, { IdA })
    \/ \E o \in OpSlots : LoadProfileRow(o)
    \/ \E o \in OpSlots : LoadSections(o)
    \/ \E text \in Texts : EditItems(1, text)

SpecTextList == InitTextList /\ [][NextTextList]_vars

\* The items of the draft of section 1, shown in its textarea joined by
\* newlines.
DraftItems == DraftArray(1, "items")

NoBlankEntry(items) == \A i \in DOMAIN items : NotBlank(items[i])

NoNewLineInside(items) ==
    \A i \in DOMAIN items : \A k \in DOMAIN items[i] : items[i][k] # NewLine

\* A step of the textarea: the drafts change while no handler moves.
Typed == ops' = ops /\ page'.sectionEdits # page.sectionEdits

\* Whatever is typed, the parsed list has no blank entry.
ParsedHasNoBlank ==
    [][ Typed => NoBlankEntry(page'.sectionEdits[1].content.items) ]_vars

\* C18 as claimed: every item list without a blank or whitespace-only entry
\* comes back, in order, when it is joined by newlines and parsed again; and
\* a parsed list never holds a blank or whitespace-only entry.
C18_RoundTrip ==
    /\ [] (NoBlankEntry(DraftItems) => parseItems(joinLines(DraftItems)) = DraftItems)
    /\ ParsedHasNoBlank

\* C18 as amended: the same for the lists none of whose entries holds a
\* newline.
C18_RoundTripOfLines ==
    /\ [] ((NoBlankEntry(DraftItems) /\ NoNewLineInside(DraftItems)) =>
               parseItems(joinLines(DraftItems)) = DraftItems)
    /\ ParsedHasNoBlank

\* Two lines were typed over a stored list of one blank entry; they are the
\* draft's items.
C18_Witness ==
    /\ HasDraft(page.sectionEdits, 1)
    /\ DraftItems = << << "a" >>, << "a" >> >>
    /\ Persisted(1).content.items = << << " " >> >>


(***************************************************************************)
(* A links section is added, one link is added to it and given a title,    *)
(* and the draft is saved                                                  *)
(***************************************************************************)
DraftLinks == DraftArray(1, "links")

StoredLinks == Get(Persisted(1).content, "links")

\* What is typed into the two inputs of the added link.
AddedLinkTitles == { MyLink.title, "Renamed" }

AddedLinkUrls == { MyLink.url, "https://selfbook.example" }

\* The draft holds the stored links and, after them, the one link added.
OneLinkAdded ==
    /\ Shown(1) /\ Persisted(1).id = 1
    /\ Len(DraftLinks) = Len(StoredLinks) + 1
    /\ SubSeq(DraftLinks, 1, Len(DraftLinks) - 1) = StoredLinks

NextAddLink ==
    \/ \E o \in OpSlots : Quiet /\ Mount(o)
    \/ \E o \in OpSlots : ClickReset(o)
    \/ \E o \in OpSlots : LoadGetUserFrom(o, { IdA })
    \/ \E o \in OpSlots : LoadProfileRow(o)
    \/ \E o \in OpSlots : LoadSections(o)
    \/ \E o \in OpSlots : Quiet /\ sectionsTable.serial = 0 /\ ClickAddSection(o, "links")
    \/ \E o \in OpSlots : AddSectionInsert(o)
    \/ Quiet /\ Persisted(1).id = 1 /\ Persisted(1).updated_at = 0
             /\ DraftLinks = StoredLinks /\ AddLink(1)
    \/ \E value \in AddedLinkTitles :
          OneLinkAdded /\ EditLinkTitle(1, Len(DraftLinks), value)
    \/ \E value \in AddedLinkUrls :
          OneLinkAdded /\ EditLinkUrl(1, Len(DraftLinks), value)
    \/ \E o \in OpSlots :
          Quiet /\ OneLinkAdded /\ DraftLinks[Len(DraftLinks)] = MyLink /\ ClickSave(o, 1)
    \/ \E o \in OpSlots : SaveSectionUpdate(o)

SpecAddLink == InitEditor /\ [][NextAddLink]_vars

\* The draft was saved and the page has reloaded the saved row.
SavedAndReloaded ==
    /\ Quiet /\ Persisted(1).updated_at # 0
    /\ page.sections = << Persisted(1) >>

\* C19 as claimed: once a links section was added, the link {My Link,
\* https://example.com} added to it, the draft saved and the page reloaded,
\* the section's content is that one link.
C19_ExactlyOneLink ==
    SavedAndReloaded => page.sections[1].content.links = << MyLink >>

\* C19 as amended: the section's content is two links, the link {My Link,
\* https://example.com} that addSection puts into every new links section
\* and, after it, the link that was added.
C19_DefaultAndAddedLink ==
    SavedAndReloaded =>
        /\ page.sections[1].type = "links"
        /\ page.sections[1].content = [ links |-> << MyLink, MyLink >> ]

\* The scenario has run to its end.
C19_Witness ==
    /\ SavedAndReloaded
    /\ Len(page.sections[1].content.links) = 2
    /\ page.sections[1].content.links[2].title = "My Link"


(***************************************************************************)
(* Uploads of a profile picture and a banner, one beside the other         *)
(***************************************************************************)
text_old_url == << "o", "l", "d" >>

FileNames == { << "a", ".", "p" >>, << "a", ".", "b", ".", "j" >>, << "p" >> }

AvatarFiles == { File(name) : name \in FileNames } \cup { NoFile }

BannerFiles == { File(<< "a", ".", "p" >>), NoFile }

\* The owner's profile has a picture or none, and no banner.
InitUpload ==
    /\ \E url \in { Null, text_old_url } :
          profiles = { [ OwnerRow EXCEPT !.avatar_url = url ], OtherRow }
    /\ authUsers = Identities
    /\ now = 0
    /\ req = [ r \in Slots |-> IdleReq ]
    /\ signup = SignupInit
    /\ dash = DashInit
    /\ lib = LibInit
    /\ sectionsTable = EmptyTable
    /\ page = PageInit
    /\ ops = OpsInit
    /\ bucket = {}
    /\ card = NoCard
    /\ peer = NoPeer

NextUpload ==
    \/ \E o \in OpSlots : Mount(o)
    \/ \E o \in OpSlots : LoadGetUserFrom(o, { IdA })
    \/ \E o \in OpSlots : LoadProfileRow(o)
    \/ \E o \in OpSlots : LoadSections(o)
    \/ \E o \in OpSlots : \E file \in AvatarFiles : UploadAvatar(o, file)
    \/ \E o \in OpSlots : \E file \in BannerFiles : UploadBanner(o, file)
    \/ \E o \in OpSlots : UploadStore(o)
    \/ \E o \in OpSlots : UploadPersist(o)
    \/ TypeAvatarUrl(text_url)

SpecUpload == InitUpload /\ [][NextUpload]_vars

\* The upload of handler o has failed in this step.
UploadFails(o) ==
    /\ ops[o].pc = "upload" /\ ops'[o] # ops[o] /\ bucket' = bucket
    /\ ops'[o].pc # "persist"

Uploading(kind) == IF kind = "uploadAvatar" THEN page.uploadingAvatar ELSE page.uploadingBanner

InFlight(kind) == \E o \in OpSlots : ops[o].kind = kind

\* C20: when the storage refuses an upload, the page shows the message of the
\* failure, the handler ends without an update of the profile, the stored
\* avatar_url and banner_url and the two URLs on display are what they were,
\* and the flag of the upload is cleared; a flag is never left set by a
\* handler that has ended.
C20_UploadFailure ==
    /\ [] ( \A kind \in { "uploadAvatar", "uploadBanner" } : Uploading(kind) => InFlight(kind) )
    /\ [][ \A o \in OpSlots :
             UploadFails(o) =>
               /\ page'.alert = failedToUpload(Purpose(ops[o].kind), StorageErrorMessage)
               /\ ops'[o] = NoOp
               /\ profiles' = profiles
               /\ page'.avatarUrl = page.avatarUrl
               /\ page'.bannerUrl = page.bannerUrl
               /\ page'.profile = page.profile
               /\ IF ops[o].kind = "uploadAvatar"
                  THEN ~page'.uploadingAvatar /\ page'.uploadingBanner = page.uploadingBanner
                  ELSE ~page'.uploadingBanner /\ page'.uploadingAvatar = page.uploadingAvatar ]_vars

\* An upload of a picture has failed for an owner whose profile has one and
\* who had typed another URL; nothing is in flight any more.
C20_Witness ==
    /\ page.alert = failedToUpload("avatar", StorageErrorMessage)
    /\ ops = OpsInit /\ bucket = {}
    /\ ~page.uploadingAvatar
    /\ page.avatarUrl = text_url
    /\ page.profile.avatar_url = text_old_url
    /\ \E p \in profiles : p.id = page.profile.id /\ p.avatar_url = text_old_url


\* The update of the profile that handler o issued has answered in this step.
PersistAnswered(o) == ops[o].pc = "persist" /\ ops'[o] # ops[o]

\* The path is made of the folder and the purpose of the handler's kind, the
\* id of the profile, and what follows the last dot of the file's name.
PathOf(op) ==
    \E ext \in { SubSeq(op.file, i, Len(op.file)) : i \in 1..(Len(op.file) + 1) } :
        /\ \A i \in DOMAIN ext : ext[i] # "."
        /\ Len(ext) = Len(op.file) \/ op.file[Len(op.file) - Len(ext)] = "."
        /\ op.path = IF op.kind = "uploadAvatar"
                     THEN << "avatars", "/", ToString(op.profileId), "-", "avatar", "." >> \o ext
                     ELSE << "banners", "/", ToString(op.profileId), "-", "banner", "." >> \o ext

\* The row of the same id after the write: the URL of the handler's kind and
\* the timestamp are new, every other field is as it was.
WrittenRow(p, op) ==
    \E q \in profiles' :
        /\ q.id = p.id /\ q.user_id = p.user_id /\ q.username = p.username
        /\ q.display_name = p.display_name /\ q.bio = p.bio /\ q.theme = p.theme
        /\ q.updated_at = now + 1
        /\ IF op.kind = "uploadAvatar"
           THEN q.avatar_url = << "Profiles", "/" >> \o op.path /\ q.banner_url = p.banner_url
           ELSE q.banner_url = << "Profiles", "/" >> \o op.path /\ q.avatar_url = p.avatar_url

CardTypes == SectionTypes \cup { "video" }

CardSection(id, type, position) ==
    [ NoSection EXCEPT !.id = id, !.profile_id = OwnerRow.id, !.title = defaultTitle(type),
                       !.type = type, !.position = position,
                       !.content = IF type \in SectionTypes THEN defaultContent(type)
                                   ELSE EmptyContent ]

\* Lists of sections with distinct ids, in display order.
CardSectionLists ==
    UNION { { [ i \in 1..n |-> CardSection(ids[i], types[i], i - 1) ] :
                ids \in { f \in [ 1..n -> SectionIds ] : \A i, j \in 1..n : i # j => f[i] # f[j] },
                types \in [ 1..n -> CardTypes ] } : n \in 0..MaxSections }

CardProfiles == { OwnerRow, [ OwnerRow EXCEPT !.banner_url = text_url ] }

NextCard ==
    \/ \E profile \in CardProfiles : \E sections \in CardSectionLists :
          ProfileCard(profile, sections)
    \/ \E i \in SectionIds : SetActiveSection(i)

SpecCard == InitEditor /\ [][NextCard]_vars

\* The component the type tag stands for; "null" for every other tag.
ComponentOf(type) ==
    IF type = "text_list" THEN "TextListSection"
    ELSE IF type = "links" THEN "LinksSection"
    ELSE IF type = "gallery" THEN "GallerySection"
    ELSE "null"

\* C22: the active section id starts as the id of the first section of the
\* list, or empty for an empty list; it is always the id of a section of the
\* list when there is one; what is rendered is the component of the active
\* section's type tag, given that section, and nothing for an unknown tag;
\* and the renderer changes neither its profile and sections nor the store.
C22_ActiveSection ==
    /\ [] ( card.mounted =>
              /\ IF card.sections = << >>
                 THEN card.activeSection = 0 /\ SectionContent(card) = Nothing
                 ELSE \E i \in DOMAIN card.sections :
                         /\ card.sections[i].id = card.activeSection
                         /\ SectionContent(card).component = ComponentOf(card.sections[i].type)
                         /\ ComponentOf(card.sections[i].type) # "null"
                               => SectionContent(card).section = card.sections[i]
                         /\ ComponentOf(card.sections[i].type) = "null"
                               => SectionContent(card) = Nothing )
    /\ [][ ~card.mounted /\ card'.mounted =>
             card'.activeSection = IF card'.sections = << >> THEN 0 ELSE card'.sections[1].id ]_vars
    /\ [][ card.mounted =>
             card'.mounted /\ card'.profile = card.profile /\ card'.sections = card.sections ]_vars
    /\ [][ card' # card =>
             profiles' = profiles /\ sectionsTable' = sectionsTable /\ bucket' = bucket ]_vars

\* The second tab was selected and its section has a type the code does not
\* know: nothing is rendered.
C22_Witness ==
    /\ card.mounted /\ Len(card.sections) = 2
    /\ card.sections[1].type = "links" /\ card.sections[2].type = "video"
    /\ card.activeSection = card.sections[2].id
    /\ card.activeSection # initialActive(card.sections)
    /\ SectionContent(card) = Nothing

\* The list is empty and so is the active section id.
C22_WitnessEmpty == card.mounted /\ card.sections = << >> /\ card.activeSection = 0


(***************************************************************************)
(* Two browser sessions of the owner edit and save the same section        *)
(***************************************************************************)
\* The owner has one links section, as addSection stores it.
InitTwoSessions ==
    /\ profiles = { OwnerRow, OtherRow }
    /\ authUsers = Identities
    /\ now = 0
    /\ req = [ r \in Slots |-> IdleReq ]
    /\ signup = SignupInit
    /\ dash = DashInit
    /\ lib = LibInit
    /\ sectionsTable =
          insertSection(EmptyTable,
                        [ NoSection EXCEPT !.profile_id = OwnerRow.id, !.type = "links",
                                           !.title = defaultTitle("links"),
                                           !.content = defaultContent("links"),
                                           !.position = 0 ])
    /\ page = PageInit
    /\ ops = OpsInit
    /\ bucket = {}
    /\ card = NoCard
    /\ peer = NoPeer

NextTwoSessions ==
    \/ \E o \in OpSlots : Mount(o)
    \/ \E o \in OpSlots : LoadGetUserFrom(o, { IdA })
    \/ \E o \in OpSlots : LoadProfileRow(o)
    \/ \E o \in OpSlots : LoadSections(o)
    \/ \E value \in TitleInputs : Quiet /\ EditTitle(1, value)
    \/ Quiet /\ EditVisible(1, FALSE)
    \/ \E o \in OpSlots : Quiet /\ ClickSave(o, 1)
    \/ \E o \in OpSlots : SaveSectionUpdate(o)
    \/ PeerMount
    \/ PeerLoadGetUser
    \/ PeerLoadProfileRow
    \/ PeerLoadSections
    \/ peer.op = NoOp /\ PeerEditTitle(1, "Peer title")
    \/ PeerClickSave(1)
    \/ PeerSaveSectionUpdate

SpecTwoSessions == InitTwoSessions /\ [][NextTwoSessions]_vars

\* The update carries the title, the content and the visible flag of draft.
CarriesAll(patch, draft) ==
    /\ patch.title = draft.title /\ patch.content = draft.content
    /\ patch.visible = draft.visible

\* The stored row of section 1 is now what it was with the fields of patch.
Overwritten(patch) ==
    Persisted(1)' = [ Persisted(1) EXCEPT !.title = patch.title, !.content = patch.content,
                                          !.visible = patch.visible,
                                          !.updated_at = patch.updated_at ]

\* C23: a save of either session sends the whole draft of that session; the
\* store applies an update whatever the row holds by then, the title, the
\* content and the visible flag of the row becoming those of the update that
\* is applied; and neither session shows an error.
C23_LastWriteWins ==
    /\ [] ( page.alert = Null /\ peer.page.alert = Null )
    /\ [][ \A o \in OpSlots :
             ops[o] = NoOp /\ ops'[o].pc = "update" =>
               CarriesAll(ops'[o].data, page.sectionEdits[ops'[o].id]) ]_vars
    /\ [][ peer.op = NoOp /\ peer'.op.pc = "update" =>
             CarriesAll(peer'.op.data, peer.page.sectionEdits[peer'.op.id]) ]_vars
    /\ [][ sectionsTable' # sectionsTable =>
             \/ \E o \in OpSlots : /\ ops[o].pc = "update" /\ ops'[o].pc = "getUser"
                                   /\ Overwritten(ops[o].data)
             \/ /\ peer.op.pc = "update" /\ peer'.op.pc = "getUser"
                /\ Overwritten(peer.op.data) ]_vars

\* Both sessions loaded the section as it was first stored and both saved.
\* The first session's write was applied and reloaded, then the second's:
\* the row holds the second session's title and its visible flag, and the
\* first session still shows its own.
C23_Witness ==
    /\ Quiet /\ peer.op = NoOp
    /\ page.sections # << >> /\ peer.page.sections # << >>
    /\ page.sections[1].title = "Renamed" /\ ~page.sections[1].visible
    /\ Persisted(1).title = "Peer title" /\ Persisted(1).visible
    /\ peer.page.sections[1] = Persisted(1)
    /\ page.savingSectionId = 0 /\ peer.page.savingSectionId = 0


(***************************************************************************)
(* The two writes of a POST                                                *)
(***************************************************************************)
\* The fallback insert of request r is pending or was made.
Fallback(r) == req[r].pc = "insert" \/ req[r].insertCalls > 0

\* The fallback insert of r answers in this step, after a privileged call
\* that wrote a row: the insert writes none.
NoSecondRow(r) ==
    req[r].pc = "insert" /\ req'[r].pc = "done" /\ req[r].created # 0
        => profiles' = profiles

\* C24 as claimed: the fallback insert of a POST is attempted only after a
\* privileged call that returned an error or threw, and one request never
\* writes two rows.
C24_FallbackOnlyAfterError ==
    /\ [] ( \A r \in Posts : Fallback(r) => req[r].rpcCalls = 1 /\ req[r].rpcFailed )
    /\ [][ \A r \in Posts : NoSecondRow(r) ]_vars

\* C24 as amended: the fallback insert of a POST is attempted only after a
\* privileged call that returned an error, threw or returned no data; a
\* privileged call that returned the id of the new profile without an error
\* is answered with 201 and never followed by the insert; and one request
\* never writes two rows.
C24_FallbackAfterErrorOrNoData ==
    /\ [] ( \A r \in Posts :
              Fallback(r) => req[r].rpcCalls = 1 /\ (req[r].rpcFailed \/ req[r].rpcData = 0) )
    /\ [] ( \A r \in Posts :
              req[r].rpcCalls = 1 /\ ~req[r].rpcFailed /\ req[r].rpcData # 0 =>
                 /\ req[r].pc = "done" /\ req[r].status = 201
                 /\ req[r].insertCalls = 0 /\ req[r].writes = 1 )
    /\ [][ \A r \in Posts : NoSecondRow(r) ]_vars

\* A privileged call returned neither an error nor data, and the fallback
\* insert that followed created the profile.
C24_Witness ==
    \E r \in Posts :
        /\ req[r].rpcCalls = 1 /\ ~req[r].rpcFailed /\ req[r].rpcData = 0
        /\ req[r].insertCalls = 1 /\ req[r].status = 201
        /\ \E p \in profiles : p.id = req[r].created /\ p.user_id = req[r].currentUserId


(***************************************************************************)
(* The pre-checks of a POST, in their order                                *)
(***************************************************************************)
\* C25: a POST reaches its writes only with a username, a resolved identity
\* and both lookups made, each having found no profile when it was made.
\* Without a username the answer is 400 with no identity resolved and no
\* store access; without an identity it is 401 with no store access; a taken
\* username is answered after the first lookup, an existing profile after
\* the second, neither with a write; and a request whose username was taken
\* and whose identity owned a profile when it arrived is answered as taken.
C25_PreChecksInOrder ==
    /\ [] ( \A r \in Posts :
              /\ req[r].pc \in { "rpc", "insert" } \/ req[r].writes > 0 =>
                    /\ req[r].username # Null /\ req[r].currentUserId # Null
                    /\ req[r].reads = 2
              /\ req[r].username = Null =>
                    /\ req[r].pc = "done" /\ req[r].status = 400
                    /\ req[r].error = "Username is required"
                    /\ req[r].user = Null /\ req[r].currentUserId = Null
                    /\ req[r].reads = 0 /\ req[r].writes = 0
              /\ req[r].status = 401 =>
                    /\ req[r].username # Null /\ req[r].currentUserId = Null
                    /\ req[r].reads = 0 /\ req[r].writes = 0
              /\ req[r].error = "Username is already taken" =>
                    req[r].status = 400 /\ req[r].reads = 1 /\ req[r].writes = 0
              /\ req[r].error = "Profile already exists" =>
                    req[r].status = 400 /\ req[r].reads = 2 /\ req[r].writes = 0
              /\ req[r].takenOnArrival /\ req[r].ownedOnArrival /\ req[r].pc = "done" =>
                    req[r].error = "Username is already taken" )
    /\ [][ \A r \in Posts :
             /\ req[r].pc = "check_username" /\ req'[r].pc = "check_user" =>
                   \A p \in profiles : p.username # toLowerCase(req[r].username)
             /\ req[r].pc = "check_user" /\ req'[r].pc = "rpc" =>
                   \A p \in profiles : p.user_id # req[r].currentUserId
             /\ req[r].pc = "check_user" /\ req'[r].pc = "done" =>
                   req'[r].error = "Profile already exists" ]_vars

\* The identity of the session owned a profile and the username was stored
\* when the request arrived: it was answered as taken after one lookup.
C25_Witness ==
    \E r \in Posts :
        /\ req[r].takenOnArrival /\ req[r].ownedOnArrival /\ req[r].pc = "done"
        /\ req[r].status = 400 /\ req[r].error = "Username is already taken"
        /\ req[r].reads = 1

\* A body without a username and without an identity was answered 400.
C25_WitnessNoUsername ==
    \E r \in Posts :
        /\ req[r].username = Null /\ req[r].user_id = Null /\ req[r].status = 400


(***************************************************************************)
(* The dashboard's lazy creation of a profile                              *)
(***************************************************************************)
\* C26: the dashboard sends the POST only after a lookup that reported that
\* no row exists, made when the store held no profile of the identity, and
\* then once per load, with the username "user_" followed by the first eight
\* characters of the identity; a visitor without a session is sent to the
\* login page with no lookup, no read of sections and no POST; and a lookup
\* that fails with another error is followed by no POST.
C26_LazyCreation ==
    /\ [] ( /\ dash.toLogin =>
                  /\ dash.pc = "idle" /\ dash.user = Null
                  /\ dash.lookups = 0 /\ dash.sectionReads = 0 /\ dash.posts = 0
            /\ dash.pc \in { "fetch", "await" } \/ dash.posts > 0 =>
                  dash.lookupError = "PGRST116" /\ dash.lookups = 1 /\ dash.sectionReads = 0
            /\ dash.lookupError = "PGRST116" =>
                  dash.posts = IF dash.pc = "fetch" THEN 0 ELSE 1
            /\ dash.lookupError # "PGRST116" => dash.posts = 0
            /\ dash.lookupError = "other" => dash.pc = "idle" /\ dash.profile = NoRow )
    /\ [][ dash.pc = "lookup" /\ dash'.pc = "fetch" =>
             \A p \in profiles : p.user_id # dash.user ]_vars
    /\ [][ dash'.posts # dash.posts /\ dash.posts # 1 =>
             /\ dash'.posts = 1 /\ dash.pc = "fetch"
             /\ req'[dash'.slot].caller = "dashboard" /\ req[dash'.slot] = IdleReq
             /\ req'[dash'.slot].route = "POST"
             /\ req'[dash'.slot].username =
                   << "u", "s", "e", "r", "_" >> \o SubSeq(dash.user, 1, 8)
             /\ \A r \in Slots \ { dash'.slot } : req'[r] = req[r] ]_vars

\* The dashboard of an identity without a profile created one lazily.
C26_Witness ==
    /\ dash.pc = "idle" /\ dash.lookupError = "PGRST116" /\ dash.posts = 1
    /\ dash.profile # NoRow
    /\ \E p \in profiles :
          /\ p.user_id = dash.user
          /\ p.username = << "u", "s", "e", "r", "_" >> \o SubSeq(dash.user, 1, 8)
          /\ Len(p.username) < 5 + Len(dash.user)

\* A lookup failed with another error while the identity had no profile.
C26_WitnessOtherError ==
    /\ dash.lookupError = "other" /\ dash.user # Null
    /\ \A p \in profiles : p.user_id # dash.user


(***************************************************************************)
(* The ends of handleSignup                                                *)
(***************************************************************************)
\* C27: the signup page is left for the dashboard only with a session and a
\* stored profile of the new identity, created by the page's privileged call
\* or by the POST it sent; the POST is pending or was sent, once, exactly
\* when the privileged call returned an error, threw or returned no data;
\* and a handler that ended on the page left a message and cleared loading.
C27_SignupEnds ==
    /\ signup.pc = "redirected" =>
          /\ signup.session /\ signup.profileCreated
          /\ \E p \in profiles : p.user_id = signup.user
          /\ signup.rpc = "data" \/ signup.fetches = 1
    /\ signup.fetches <= 1
    /\ signup.pc \in { "fetch", "await" } \/ signup.fetches = 1
          <=> signup.rpc \in { "error", "threw", "nodata" }
    /\ signup.rpc = "data" => signup.fetches = 0 /\ signup.pc \in { "redirected", "idle" }
    /\ signup.pc = "fetch" => signup.fetches = 0
    /\ signup.pc = "idle" /\ signup.ran => signup.error # "" /\ ~signup.loading
    /\ signup.pc \notin { "idle" } => signup.loading /\ signup.error = ""

\* The privileged call returned no data; the POST created the profile and
\* the page was left for the dashboard.
C27_Witness ==
    /\ signup.pc = "redirected" /\ signup.rpc = "nodata" /\ signup.fetches = 1
    /\ \E p \in profiles : p.user_id = signup.user

\* The privileged call threw after it had written the row: the POST was
\* refused and the handler ended with its message.
C27_WitnessRefused ==
    /\ signup.pc = "idle" /\ signup.rpc = "threw" /\ signup.fetches = 1
    /\ signup.error = MsgApiFailed /\ ~signup.loading
    /\ \E p \in profiles : p.user_id = signup.user


(***************************************************************************)
(* The drafts after a reload                                               *)
(***************************************************************************)
\* The draft that a reload builds from a loaded row, lines 568-578.
SeededDraft(sec) ==
    [ title |-> sec.title, content |-> normalizedContent(sec), visible |-> sec.visible ]

\* The sections query of the reload in slot o is answered in this step.
SectionsAnswered(o) == ops[o].pc = "sections" /\ ops'[o].pc # "sections"

C29_WitnessUnsaved ==
    \E o \in OpSlots :
        /\ ops[o].pc = "sections" /\ ops[o].kind = "saveSection" /\ ops[o].id = 1
        /\ Persisted(1).title = "Renamed"
        /\ HasDraft(page.sectionEdits, 2) /\ ~page.sectionEdits[2].visible
        /\ Persisted(2).visible


(***************************************************************************)
(* Positions after sections were deleted                                   *)
(***************************************************************************)
MaxInserts == 4

\* An owner who adds galleries and deletes sections, one handler at a time.
NextPositions ==
    \/ \E o \in OpSlots : Quiet /\ Mount(o)
    \/ \E o \in OpSlots : LoadGetUserFrom(o, { IdA })
    \/ \E o \in OpSlots : LoadProfileRow(o)
    \/ \E o \in OpSlots : LoadSections(o)
    \/ \E o \in OpSlots : Quiet /\ ClickAddSectionUpTo(o, "gallery", MaxInserts)
    \/ \E o \in OpSlots : AddSectionInsert(o)
    \/ \E o \in OpSlots, id \in 1..MaxInserts : Quiet /\ ClickDelete(o, id, TRUE)
    \/ \E o \in OpSlots : DeleteSectionDelete(o)

SpecPositions == InitEditor /\ [][NextPositions]_vars

\* The page lists the sections that are persisted for its profile.
Reloaded ==
    /\ Rendered
    /\ page.sections \in selectSections(sectionsTable, page.profile.id)

\* C30: when a section is added while the page lists the persisted sections
\* and no other handler runs, the row that is inserted has a position at
\* least that of every section persisted for the profile.
C30_AddedLast ==
    [][ \A o \in OpSlots :
          ( /\ ops[o].pc = "insert" /\ sectionsTable'.serial # sectionsTable.serial
            /\ Reloaded /\ \A o2 \in OpSlots \ { o } : ops[o2] = NoOp ) =>
              \A s \in sectionsTable.rows :
                  s.profile_id = ops[o].data.profile_id =>
                      ops[o].data.position >= s.position
      ]_vars

\* Three sections were added, the first two deleted, and a fourth added: it
\* has position 1 while the third section keeps position 2.
C30_Sorted_Before ==
    /\ Quiet /\ Reloaded
    /\ \E new, old \in sectionsTable.rows :
          /\ new.id = 4 /\ old.id = 3
          /\ new.position = 1 /\ old.position = 2
          /\ page.sections = << new, old >>


(***************************************************************************)
(* Reloads whose responses arrive in any order                             *)
(***************************************************************************)
\* Sections are added and deleted and the list is reset by handlers that
\* overlap; every read of a reload is answered, and the response of a
\* sections query arrives at any time after the store has answered it.
NextReloads ==
    \/ \E o \in OpSlots : Quiet /\ Mount(o)
    \/ \E o \in OpSlots : ClickReset(o)
    \/ \E o \in OpSlots : LoadGetUserFrom(o, { IdA })
    \/ \E o \in OpSlots : LoadProfileRowWith(o, { "ok" })
    \/ \E o \in OpSlots : SectionsQuery(o, { "ok" })
    \/ \E o \in OpSlots : SectionsResponse(o)
    \/ \E o \in OpSlots : ClickAddSection(o, "gallery")
    \/ \E o \in OpSlots : AddSectionInsert(o)
    \/ \E o \in OpSlots, id \in SectionIds : ClickDelete(o, id, TRUE)
    \/ \E o \in OpSlots : DeleteSectionDelete(o)

SpecReloads == InitEditor /\ [][NextReloads]_vars

\* The same handlers when the response of every sections query arrives
\* before the store answers anything else.
NextReloadsInOrder ==
    \/ \E o \in OpSlots : Quiet /\ Mount(o)
    \/ \E o \in OpSlots : ClickReset(o)
    \/ \E o \in OpSlots : LoadGetUserFrom(o, { IdA })
    \/ \E o \in OpSlots : LoadProfileRowWith(o, { "ok" })
    \/ \E o \in OpSlots : LoadSectionsWith(o, { "ok" })
    \/ \E o \in OpSlots : ClickAddSection(o, "gallery")
    \/ \E o \in OpSlots : AddSectionInsert(o)
    \/ \E o \in OpSlots, id \in SectionIds : ClickDelete(o, id, TRUE)
    \/ \E o \in OpSlots : DeleteSectionDelete(o)

SpecReloadsInOrder == InitEditor /\ [][NextReloadsInOrder]_vars

\* C28: when no handler of the dashboard is in flight, the section list of
\* the page is the list of the sections persisted for its profile, in
\* position order, and the draft map has one draft for each listed section
\* and no other.
C28_Converges ==
    Quiet /\ Rendered =>
        /\ page.sections \in selectSections(sectionsTable, page.profile.id)
        /\ DOMAIN page.sectionEdits = { page.sections[i].id : i \in DOMAIN page.sections }

\* The list and the drafts of a page without a handler in flight are those of
\* the persisted sections when responses arrive in the order of the queries.
ConvergesInOrder == C28_Converges

\* Every handler has ended and the page lists a section that is persisted
\* no more: the response of the reset's query arrived after that of the
\* reload which followed the delete.
C28_StaleList ==
    /\ Quiet /\ Rendered
    /\ sectionsTable.rows = {} /\ sectionsTable.serial = 1
    /\ Len(page.sections) = 1 /\ HasDraft(page.sectionEdits, 1)

====
